---- MODULE Spec2Model ----
(***************************************************************************)
(* Verification model of the smart-logs audit platform.                    *)
(*                                                                         *)
(* Part 1: RetryManager (retry loop and per-key circuit breaker).          *)
(* Part 2: GDPRComplianceService (pseudonymization, erasure, audit trail). *)
(* Part 3: AuditLogger and DataMasker of the client (buffer, flush, masks). *)
(* Part 4: the health router of the server.                                *)
(* Part 5: ConfigurationManager of the audit package (updates, snapshots). *)
(* Part 6: BaseResource.request of the client (retries, backoff).          *)
(* Part 7: the queue adapter and the ingestion worker (delivery).          *)
(*                                                                         *)
(* Time is an integer clock (Date.now()).  A field that the code leaves    *)
(* `undefined` (lastFailureTime, nextRetryTime) is the value 0: the code   *)
(* reads these fields only through truthiness tests and `|| 0`, and the    *)
(* clock starts at 1.                                                      *)
(***************************************************************************)
EXTENDS Integers, Sequences, FiniteSets, TLC

VARIABLES
    now,                \* Date.now()
    config,             \* RetryManager.config
    circuitBreakerConfig, \* RetryManager.circuitBreakerConfig
    circuitBreakers,    \* RetryManager.circuitBreakers : key -> stats
    calls,              \* the execute() calls in flight, one per slot
    invoked,            \* history: number of operation invocations so far
    tripUntil,          \* history: per key, opening failure time + recoveryTimeoutMs
    lastRec,            \* history: the last recordSuccess / recordFailure and the state it found
    store,              \* audit_log table
    nextId,             \* audit_log id sequence
    clock,              \* wall clock of the GDPR service, in days
    pseudonymMappings,  \* GDPRComplianceService.pseudonymMappings
    gdprResult,         \* the last GDPR service call and what it returned
    gdprOps,            \* the GDPR service calls in flight, one per caller
    gdprStart,          \* history: store, id sequence and mappings before the calls in flight
    loggerConfig,       \* AuditLogger.config
    customLogger,       \* AuditLogger.customLogger: is a custom sink configured
    buffer,             \* AuditLogger.buffer
    logClock,           \* new Date() of the logger: one tick per recorded call
    sinkCalls,          \* the entries customLogger.log was called with, in call order
    consoleOut,         \* the console lines written, in order
    flushOp,            \* the flush() calls, in flight or returned, one per caller
    recorded,           \* history: the entries written since the buffer was last emptied
    maskLog,            \* history: metadata passed to the log calls and metadata recorded
    retained,           \* history: the entries written that the size limit did not evict
    healthReq,          \* the healthRouter.check requests, in flight or answered, one per slot
    auditConfig,        \* ConfigurationManager: the live configuration (top-level object)
    configObjects,      \* the section objects that configuration objects refer to
    hotReloadConfig,    \* ConfigurationManager: the hot reload configuration, if given
    changeHistory,      \* ConfigurationManager: the change history
    configEvents,       \* the events the manager emitted, in order
    held,               \* the objects getConfig() returned, one per caller
    configClock,        \* ticks once per call on the manager or on a returned object
    configResult,       \* the last call on the manager and its outcome
    clientOptions,      \* BaseResource.options
    httpCall,           \* the request() call: its locals, position and history
    batch,              \* the executeAll() call: pending or returned, and its RetryResults
    queueConfig,        \* the queue adapter: visibilityTimeout and maxRetries
    queue,              \* the queue adapter: its streams, counters and clock
    workers             \* the ingestion worker: what each consumer of the pool holds

retryVars == <<now, config, circuitBreakerConfig, circuitBreakers, calls, invoked, tripUntil, lastRec>>
gdprVars == <<store, nextId, clock, pseudonymMappings, gdprResult, gdprOps, gdprStart>>
loggerVars == <<loggerConfig, customLogger, buffer, logClock, sinkCalls, consoleOut, flushOp,
                recorded, maskLog, retained>>
healthVars == <<healthReq>>
configVars == <<auditConfig, configObjects, hotReloadConfig, changeHistory, configEvents, held,
                configClock, configResult>>
clientVars == <<clientOptions, httpCall>>
batchVars == <<batch>>
queueVars == <<queueConfig, queue, workers>>
restVars == <<clientVars, batchVars, queueVars>>
serviceVars == <<loggerVars, healthVars, configVars, restVars>>
vars == <<now, config, circuitBreakerConfig, circuitBreakers, calls, invoked, tripUntil, lastRec,
          store, nextId, clock, pseudonymMappings, gdprResult, gdprOps, gdprStart,
          loggerConfig, customLogger, buffer, logClock, sinkCalls, consoleOut, flushOp,
          recorded, maskLog, retained, healthReq,
          auditConfig, configObjects, hotReloadConfig, changeHistory, configEvents, held,
          configClock, configResult, clientOptions, httpCall, batch,
          queueConfig, queue, workers>>

----------------------------------------------------------------------------
(* Bounds of the model *)

MaxTime == 5
MaxInvocations == 4
MaxAuditWrites == 2
MaxDay == 7
MaxLogCalls == 3
MaxBufferSize == 2
MaxLogSize == 5
MaxConfigCalls == 4
MaxRetries == 2
MaxBackoffMs == 3
MaxJobs == 2
MaxNacks == 2
MaxQueueTime == 2

----------------------------------------------------------------------------
(* Part 1: RetryManager *)

Calls == {"c1", "c2"}

Contexts ==
    { [endpoint |-> "/events", method |-> "GET"],
      [endpoint |-> "/events", method |-> "undefined"] }

getCircuitBreakerKey(context) ==
    <<context.endpoint, IF context.method = "undefined" THEN "GET" ELSE context.method>>

Keys == { getCircuitBreakerKey(ctx) : ctx \in Contexts }

CLOSED == "closed"
OPEN == "open"
HALF_OPEN == "half_open"

NoStats == [state |-> "absent"]

NewStats ==
    [state |-> CLOSED, failureCount |-> 0, successCount |-> 0, totalRequests |-> 0,
     lastFailureTime |-> 0, nextRetryTime |-> 0]

(* Errors an operation can throw.  msg is the set of pattern strings the   *)
(* error message contains (String.includes).                               *)
HttpError(status) == [cls |-> "HttpError", name |-> "HttpError", status |-> status, msg |-> {}]
PlainError(name, msg) == [cls |-> "Error", name |-> name, status |-> 0, msg |-> msg]
NoError == [cls |-> "none", name |-> "none", status |-> 0, msg |-> {}]

(* new CircuitBreakerOpenError(`Circuit breaker is open for ${key}. Next retry at   *)
(* ...`): msg is the set of patterns that the text, hence the key, contains         *)
CircuitBreakerOpenError(msg) ==
    [cls |-> "CircuitBreakerOpenError", name |-> "CircuitBreakerOpenError", status |-> 0,
     msg |-> msg]

OpErrors ==
    { HttpError(503), HttpError(400),
      PlainError("Error", {"ECONNRESET"}),
      PlainError("Error", {}) }

(* Errors of every class that shouldRetry tells apart: retryable and other status   *)
(* codes, each branch of the message tests, and breaker errors of an inner execute  *)
(* for the keys "/events:GET" and "/timeout-policies:GET"                           *)
ThrownErrors ==
    { HttpError(503), HttpError(429), HttpError(400),
      PlainError("Error", {"ECONNRESET"}),
      PlainError("Error", {"ECONNREFUSED"}),
      PlainError("Error", {"ECONNREFUSED", "timeout"}),
      PlainError("Error", {"ETIMEDOUT"}),
      PlainError("Error", {"timeout"}),
      PlainError("TimeoutError", {}),
      PlainError("Error", {}),
      CircuitBreakerOpenError({}),
      CircuitBreakerOpenError({"timeout"}) }

networkErrorPatterns ==
    {"ECONNRESET", "ECONNREFUSED", "ETIMEDOUT", "ENOTFOUND", "ENETUNREACH", "EAI_AGAIN", "EPIPE"}

isNetworkError(error) == \E pattern \in networkErrorPatterns : pattern \in error.msg

isTimeoutError(error) ==
    \/ error.name = "TimeoutError"
    \/ "timeout" \in error.msg
    \/ "ETIMEDOUT" \in error.msg

shouldRetry(error) ==
    IF error.cls = "HttpError" THEN error.status \in config.retryableStatusCodes
    ELSE IF isNetworkError(error)
         THEN \E retryableError \in config.retryableErrors : retryableError \in error.msg
    ELSE IF isTimeoutError(error) THEN TRUE
    ELSE IF error.cls = "CircuitBreakerOpenError" THEN FALSE
    ELSE FALSE

RECURSIVE Pow(_, _)
Pow(b, e) == IF e = 0 THEN 1 ELSE b * Pow(b, e - 1)

Min(a, b) == IF a <= b THEN a ELSE b

baseDelay(attempt) ==
    Min(config.initialDelayMs * Pow(config.backoffMultiplier, attempt - 1), config.maxDelayMs)

(* Variant: the jitter is added on top of the exponential delay *)
calculateDelay_AddedJitter(attempt) ==
    baseDelay(attempt) .. (2 * baseDelay(attempt))

(* Math.floor(Math.random() * baseDelay) with Math.random() in [0, 1) *)
calculateDelay(attempt) ==
    IF baseDelay(attempt) = 0 THEN {0} ELSE 0 .. (baseDelay(attempt) - 1)

getOrCreateCircuitBreakerStats(cbs, key) ==
    IF cbs[key] = NoStats THEN NewStats ELSE cbs[key]

(* Variant: the open breaker is compared against lastFailureTime *)
checkCircuitBreaker_LastFailure(cbs, key, t) ==
    LET stats == getOrCreateCircuitBreakerStats(cbs, key) IN
    IF stats.state = OPEN
    THEN IF t >= stats.lastFailureTime
         THEN [cbs |-> [cbs EXCEPT ![key] = [stats EXCEPT !.state = HALF_OPEN]], thrown |-> FALSE]
         ELSE [cbs |-> [cbs EXCEPT ![key] = stats], thrown |-> TRUE]
    ELSE [cbs |-> [cbs EXCEPT ![key] = stats], thrown |-> FALSE]

(* Result of checkCircuitBreaker: the map afterwards and whether it threw *)
checkCircuitBreaker(cbs, key, t) ==
    LET stats == getOrCreateCircuitBreakerStats(cbs, key) IN
    IF stats.state = OPEN
    THEN IF t >= stats.nextRetryTime
         THEN [cbs |-> [cbs EXCEPT ![key] = [stats EXCEPT !.state = HALF_OPEN]], thrown |-> FALSE]
         ELSE [cbs |-> [cbs EXCEPT ![key] = stats], thrown |-> TRUE]
    ELSE [cbs |-> [cbs EXCEPT ![key] = stats], thrown |-> FALSE]

cleanupOldStats(stats, t) ==
    LET windowStart == t - circuitBreakerConfig.monitoringWindowMs IN
    IF stats.lastFailureTime # 0 /\ stats.lastFailureTime < windowStart
    THEN LET reset == [stats EXCEPT !.failureCount = 0, !.successCount = 0, !.totalRequests = 0]
         IN IF stats.state = OPEN
            THEN [reset EXCEPT !.state = CLOSED, !.nextRetryTime = 0]
            ELSE reset
    ELSE stats

(* Variant: a success while half-open closes the breaker but keeps failureCount *)
recordSuccess_KeepFailures(cbs, key, t) ==
    LET stats == getOrCreateCircuitBreakerStats(cbs, key)
        counted == [stats EXCEPT !.successCount = @ + 1, !.totalRequests = @ + 1]
        closed == IF counted.state = HALF_OPEN
                  THEN [counted EXCEPT !.state = CLOSED, !.nextRetryTime = 0]
                  ELSE counted
    IN [cbs EXCEPT ![key] = cleanupOldStats(closed, t)]

recordSuccess(cbs, key, t) ==
    LET stats == getOrCreateCircuitBreakerStats(cbs, key)
        counted == [stats EXCEPT !.successCount = @ + 1, !.totalRequests = @ + 1]
        closed == IF counted.state = HALF_OPEN
                  THEN [counted EXCEPT !.failureCount = 0, !.state = CLOSED, !.nextRetryTime = 0]
                  ELSE counted
    IN [cbs EXCEPT ![key] = cleanupOldStats(closed, t)]

(* Variant: either threshold opens the breaker *)
shouldOpen_Either(stats) ==
    \/ stats.totalRequests >= circuitBreakerConfig.minimumRequestThreshold
    \/ stats.failureCount >= circuitBreakerConfig.failureThreshold

shouldOpen(stats) ==
    /\ stats.totalRequests >= circuitBreakerConfig.minimumRequestThreshold
    /\ stats.failureCount >= circuitBreakerConfig.failureThreshold

(* Variant: the old statistics are cleaned up before the failure is counted *)
recordFailure_CleanupFirst(cbs, key, t) ==
    LET stats == cleanupOldStats(getOrCreateCircuitBreakerStats(cbs, key), t)
        counted == [stats EXCEPT !.failureCount = @ + 1, !.totalRequests = @ + 1,
                                 !.lastFailureTime = t]
        opened == IF shouldOpen(counted)
                  THEN [counted EXCEPT !.state = OPEN,
                                       !.nextRetryTime = t + circuitBreakerConfig.recoveryTimeoutMs]
                  ELSE counted
    IN [cbs EXCEPT ![key] = opened]

recordFailure(cbs, key, t) ==
    LET stats == getOrCreateCircuitBreakerStats(cbs, key)
        counted == [stats EXCEPT !.failureCount = @ + 1, !.totalRequests = @ + 1,
                                 !.lastFailureTime = t]
        opened == IF shouldOpen(counted)
                  THEN [counted EXCEPT !.state = OPEN,
                                       !.nextRetryTime = t + circuitBreakerConfig.recoveryTimeoutMs]
                  ELSE counted
    IN [cbs EXCEPT ![key] = cleanupOldStats(opened, t)]

(* Variant: every error is retried until maxAttempts *)
stopRetrying_AnyError(attempt, error) ==
    attempt = config.maxAttempts

(* execute(): the test that leaves the retry loop after a failed attempt *)
stopRetrying(attempt, error) ==
    attempt = config.maxAttempts \/ ~shouldRetry(error)

(* Variant: the error reports the configured maximum, not the attempts made *)
RetryExhaustedError_MaxAttempts(originalError, attempts) ==
    [kind |-> "RetryExhaustedError", originalError |-> originalError,
     attempts |-> config.maxAttempts]

RetryExhaustedError(originalError, attempts) ==
    [kind |-> "RetryExhaustedError", originalError |-> originalError, attempts |-> attempts]

IdleCall ==
    [pc |-> "idle", key |-> <<"", "">>, attempt |-> 0, invocations |-> 0,
     lastError |-> NoError, thrown |-> NoError, wakeAt |-> 0, slept |-> FALSE,
     totalDelay |-> 0,
     result |-> [kind |-> "none", originalError |-> NoError, attempts |-> 0]]

Result(kind, err, attempts) == [kind |-> kind, originalError |-> err, attempts |-> attempts]

----------------------------------------------------------------------------
(* Part 2: GDPRComplianceService, definitions *)

(* Identifiers (principal ids, pseudonyms, resource ids) are tuples of strings; an   *)
(* absent identifier is the empty tuple, an absent day 0, other absent values Null. *)
Null == "null"
NoId == <<>>
NoDay == 0
NullDetails == [k \in {"$null"} |-> TRUE]

Principals == { <<"u9">>, <<"admin">> }

(* Ids longer than the 12 bytes that 16 base64 characters encode: the first element *)
(* is the part within the first 12 bytes, the second the rest                       *)
LongPrincipals == { <<"user-0000001", "a">>, <<"user-0000001", "b">> }

(* the keys pseudonymMappings can hold *)
OriginalIds == Principals \cup LongPrincipals
Tokens == {"tok1", "tok2"}

complianceActions ==
    {"auth.login.success", "auth.login.failure", "data.access.unauthorized",
     "gdpr.data.export", "gdpr.data.pseudonymize", "gdpr.data.delete"}

(* SHA-256 as an injective function of the bytes it is given *)
sha256(bytes) == <<"sha256", bytes>>

(* JSON text of an object: its keys, in the order given, with their values *)
Serialize(obj, keys) == [i \in 1 .. Len(keys) |-> <<keys[i], obj[keys[i]]>>]

(* Canonical form (spec 4.1): every field except hash and archivedAt (and the row   *)
(* id the store assigns), keys in lexicographic order, absent fields as null.       *)
CanonicalKeys ==
    <<"action", "dataClassification", "details", "eventVersion", "hashAlgorithm",
      "outcomeDescription", "principalId", "retentionPolicy", "status",
      "targetResourceId", "targetResourceType", "timestamp">>

canonicalHash(row) == sha256(Serialize(row, CanonicalKeys))

verify(row) == row.hash = canonicalHash(row)

(* Key order of the object literals passed to logGDPRActivity *)
GDPRActivityKeys ==
    <<"timestamp", "principalId", "action", "status", "targetResourceType",
      "targetResourceId", "outcomeDescription", "dataClassification",
      "retentionPolicy", "details">>

(* db.insert(auditLogTable).values({...event, hash, hashAlgorithm, eventVersion}) *)
logGDPRActivity(st, id, event) ==
    st \cup
    { [id |-> id,
       timestamp |-> event.timestamp,
       principalId |-> event.principalId,
       action |-> event.action,
       status |-> event.status,
       targetResourceType |-> event.targetResourceType,
       targetResourceId |-> event.targetResourceId,
       outcomeDescription |-> event.outcomeDescription,
       dataClassification |-> event.dataClassification,
       retentionPolicy |-> event.retentionPolicy,
       details |-> event.details,
       hash |-> sha256(Serialize(event, GDPRActivityKeys)),
       hashAlgorithm |-> "SHA-256",
       eventVersion |-> "1.0",
       archivedAt |-> NoDay] }

(* generatePseudonymId: the salt is a fixed process-wide value and the hash keeps   *)
(* ids apart; the 16 characters of base64 kept by substring(0, 16) encode the first *)
(* 12 bytes of the id, its first element                                            *)
generatePseudonymId(originalId, strategy, token) ==
    CASE strategy = "hash" -> <<"pseudo-", "sha256">> \o originalId \o <<"salt">>
      [] strategy = "token" -> <<"pseudo-", "hex", token>>
      [] strategy = "encryption" -> <<"pseudo-enc-", "base64">> \o SubSeq(originalId, 1, 1)

(* COALESCE(details, '{}') || '{"pseudonymized": true, "pseudonymizedAt": ...}' *)
markPseudonymized(details, t) ==
    LET keys == IF details = NullDetails THEN {} ELSE DOMAIN details
    IN [k \in keys \cup {"pseudonymized", "pseudonymizedAt"} |->
           IF k = "pseudonymized" THEN TRUE
           ELSE IF k = "pseudonymizedAt" THEN t
           ELSE details[k]]

(* UPDATE audit_log SET principalId = pseudonym, details = ... WHERE principalId = p *)
updatePseudonymize(st, principalId, pseudonymId, t) ==
    { IF row.principalId = principalId
      THEN [row EXCEPT !.principalId = pseudonymId,
                       !.details = markPseudonymized(row.details, t)]
      ELSE row : row \in st }

(* the activity that pseudonymizeUserData logs *)
pseudonymizeActivity(principalId, requestedBy, pseudonymId, strategy, affected, t) ==
    [timestamp |-> t, principalId |-> requestedBy,
     action |-> "gdpr.data.pseudonymize", status |-> "success",
     targetResourceType |-> "AuditLog", targetResourceId |-> principalId,
     outcomeDescription |-> <<"User data pseudonymized for">> \o principalId,
     dataClassification |-> "PHI", retentionPolicy |-> "gdpr_compliance",
     details |-> [originalId |-> principalId, pseudonymId |-> pseudonymId,
                  strategy |-> strategy, recordsAffected |-> affected]]

(* pseudonymizeUserData: the store, the mappings and the result afterwards *)
pseudonymize(st, id, maps, principalId, strategy, requestedBy, token, t) ==
    LET pseudonymId == generatePseudonymId(principalId, strategy, token)
        affected == Cardinality({ row \in st : row.principalId = principalId })
        updated == updatePseudonymize(st, principalId, pseudonymId, t)
        logged == logGDPRActivity(updated, id,
                     pseudonymizeActivity(principalId, requestedBy, pseudonymId, strategy,
                                          affected, t))
    IN [store |-> logged, nextId |-> id + 1,
        mappings |-> [maps EXCEPT ![principalId] = pseudonymId],
        pseudonymId |-> pseudonymId, recordsAffected |-> affected]

isCompliance(row) == row.action \in complianceActions

(* the rows matched by the DELETE of deleteUserDataWithAuditTrail *)
selectToErase(st, principalId, preserve) ==
    IF preserve
    THEN { row \in st : row.principalId = principalId /\ ~isCompliance(row) }
    ELSE { row \in st : row.principalId = principalId }

(* the activity that deleteUserDataWithAuditTrail logs *)
deleteActivity(principalId, requestedBy, recordsDeleted, complianceRecordsPreserved, preserve, t) ==
    [timestamp |-> t, principalId |-> requestedBy,
     action |-> "gdpr.data.delete", status |-> "success",
     targetResourceType |-> "AuditLog", targetResourceId |-> principalId,
     outcomeDescription |-> <<"GDPR deletion completed for user">> \o principalId,
     dataClassification |-> "PHI", retentionPolicy |-> "gdpr_compliance",
     details |-> [recordsDeleted |-> recordsDeleted,
                  complianceRecordsPreserved |-> complianceRecordsPreserved,
                  preserveComplianceAudits |-> preserve]]

(* deleteUserDataWithAuditTrail: the store, the mappings and the result afterwards *)
deleteWithAuditTrail(st, id, maps, principalId, requestedBy, preserve, t) ==
    LET complianceRecords == { row \in st : row.principalId = principalId /\ isCompliance(row) }
        pseudo == IF preserve /\ complianceRecords # {}
                  THEN pseudonymize(st, id, maps, principalId, "hash", requestedBy, "tok1", t)
                  ELSE [store |-> st, nextId |-> id, mappings |-> maps,
                        pseudonymId |-> NoId, recordsAffected |-> 0]
        toDelete == selectToErase(pseudo.store, principalId, preserve)
        recordsDeleted == Cardinality(toDelete)
        complianceRecordsPreserved == pseudo.recordsAffected
        logged == logGDPRActivity(pseudo.store \ toDelete, pseudo.nextId,
                     deleteActivity(principalId, requestedBy, recordsDeleted,
                                    complianceRecordsPreserved, preserve, t))
    IN [store |-> logged, nextId |-> pseudo.nextId + 1, mappings |-> pseudo.mappings,
        recordsDeleted |-> recordsDeleted,
        complianceRecordsPreserved |-> complianceRecordsPreserved]

(* exportUserData: no dateRange in the request *)
NoRange == [start |-> 0, end |-> 0]

(* generateRequestId: `gdpr-${Date.now()}-${randomBytes(8).toString('hex')}` *)
generateRequestId(t, token) == <<"gdpr-", t, token>>

(* Variant: the dateRange of the request is not applied *)
selectForExport_AnyDate(st, principalId, dateRange) ==
    { row \in st : row.principalId = principalId }

(* the rows matched by the SELECT of exportUserData *)
selectForExport(st, principalId, dateRange) ==
    { row \in st : /\ row.principalId = principalId
                   /\ (dateRange # NoRange
                         => row.timestamp >= dateRange.start /\ row.timestamp <= dateRange.end) }

Range(seq) == { seq[i] : i \in DOMAIN seq }

(* .orderBy(timestamp): the orders in which the database may return the rows *)
orderByTimestamp(rows) ==
    { seq \in [1 .. Cardinality(rows) -> rows] :
         /\ Range(seq) = rows
         /\ \A i, j \in DOMAIN seq : i < j => seq[i].timestamp <= seq[j].timestamp }

(* Pieces of the export buffer: a run of text, or one audit log in a format *)
Text(text) == [unit |-> "text", text |-> text]
Encoded(format, log) == [unit |-> format, log |-> log]

ExportFormats == {"json", "csv", "xml"}

(* formatExportData: JSON.stringify({exportMetadata, auditLogs}), generateCSVExport *)
(* (a header line and one line per log, or a notice when there is none) and         *)
(* generateXMLExport (the XML header, then the object)                              *)
formatExportData(auditLogs, format, includeMetadata, t) ==
    LET exportMetadata ==
            IF includeMetadata
            THEN << [unit |-> "exportMetadata", exportTimestamp |-> t,
                     recordCount |-> Len(auditLogs), format |-> format, gdprCompliant |-> TRUE] >>
            ELSE <<>>
        logs == [i \in DOMAIN auditLogs |-> Encoded(format, auditLogs[i])]
    IN CASE format = "json" -> <<Text("{")>> \o exportMetadata \o logs \o <<Text("}")>>
         [] format = "csv" -> IF Len(auditLogs) = 0
                              THEN <<Text("No data to export")>>
                              ELSE <<Text("headers")>> \o logs
         [] format = "xml" -> <<Text("<?xml?>"), Text("<gdprExport>")>> \o exportMetadata \o logs
                              \o <<Text("</gdprExport>")>>

(* the result of exportUserData before a call returns one *)
NoExport ==
    [recordCount |-> 0, dataSize |-> 0,
     metadata |-> [dateRange |-> NoRange, categories |-> {}, retentionPolicies |-> {},
                   exportedBy |-> NoId]]

(* the activity that exportUserData logs *)
exportActivity(principalId, requestedBy, requestId, format, recordCount, t) ==
    [timestamp |-> t, principalId |-> requestedBy,
     action |-> "gdpr.data.export", status |-> "success",
     targetResourceType |-> "AuditLog", targetResourceId |-> principalId,
     outcomeDescription |-> <<"GDPR data export completed for user">> \o principalId,
     dataClassification |-> "PHI", retentionPolicy |-> "gdpr_compliance",
     details |-> [requestId |-> requestId, format |-> format, recordCount |-> recordCount,
                  requestType |-> "portability"]]

(* exportUserData: the store afterwards and the rows exported *)
export(st, id, principalId, requestedBy, dateRange, format, token, t) ==
    LET auditLogs == selectForExport(st, principalId, dateRange)
        requestId == generateRequestId(t, token)
    IN [store |-> logGDPRActivity(st, id,
                     exportActivity(principalId, requestedBy, requestId, format,
                                    Cardinality(auditLogs), t)),
        nextId |-> id + 1, requestId |-> requestId,
        recordCount |-> Cardinality(auditLogs), auditLogs |-> auditLogs]

(* Callers of the service and the locals of a call in flight *)
Procs == {"a", "b"}

IdleOp ==
    [op |-> "none", pc |-> "idle", principalId |-> NoId, requestedBy |-> NoId,
     strategy |-> "none", token |-> "none", preserve |-> FALSE, dateRange |-> NoRange,
     pseudonymId |-> NoId, recordsAffected |-> 0, recordsDeleted |-> 0,
     complianceRecordsPreserved |-> 0, format |-> "none", includeMetadata |-> FALSE,
     auditLogs |-> <<>>, data |-> <<>>, exported |-> NoExport]

NoStart == [store |-> {}, nextId |-> 0, mappings |-> [p \in OriginalIds |-> NoId]]

RetryConfigs ==
    { [enabled |-> e, maxAttempts |-> m, initialDelayMs |-> 1, maxDelayMs |-> 2,
       backoffMultiplier |-> 2,
       retryableStatusCodes |-> {408, 429, 500, 502, 503, 504},
       retryableErrors |-> {"ECONNRESET", "ETIMEDOUT", "ENOTFOUND"}]
      : e \in BOOLEAN, m \in {1, 2} }

CircuitBreakerConfigs ==
    { [enabled |-> e, failureThreshold |-> f, recoveryTimeoutMs |-> r,
       monitoringWindowMs |-> w, minimumRequestThreshold |-> q]
      : e \in BOOLEAN, f \in {2}, r \in {3}, w \in {1, 3}, q \in {2, 3} }

(* Construction state of the client logger (new AuditLogger()) and of the health router *)
DefaultLoggerConfig ==
    [level |-> "info", format |-> "text", includeRequestBody |-> FALSE,
     includeResponseBody |-> FALSE, maskSensitiveData |-> TRUE, sensitiveFields |-> {},
     maxLogSize |-> 10000, enableConsole |-> TRUE, enableBuffer |-> FALSE, bufferSize |-> 1000]

Flushers == {"f1", "f2"}

IdleFlush ==
    [pc |-> "idle", entries |-> <<>>, taken |-> <<>>, current |-> <<>>, failed |-> <<>>,
     outcome |-> "none", logged |-> FALSE, cleared |-> FALSE]

Requests == {"r1", "r2"}

IdleHealth ==
    [pc |-> "idle", reported |-> "none", outcome |-> "none", code |-> "none",
     handled |-> <<>>, settled |-> <<>>, logged |-> <<>>]

InitLoggerIdle ==
    /\ loggerConfig = DefaultLoggerConfig
    /\ customLogger = FALSE
    /\ buffer = <<>>
    /\ logClock = 1
    /\ sinkCalls = <<>>
    /\ consoleOut = <<>>
    /\ flushOp = [f \in Flushers |-> IdleFlush]
    /\ recorded = <<>>
    /\ maskLog = {}
    /\ retained = {}

InitHealthIdle == healthReq = [r \in Requests |-> IdleHealth]

(* Construction state of the configuration manager: the development configuration, *)
(* no hot reload configuration, nothing handed out                                 *)
Callers == {"c1", "c2"}

createDevelopmentConfig ==
    [given |-> TRUE, environment |-> "development", version |-> 1, lastUpdated |-> 0,
     worker |-> 1, database |-> 2, monitoring |-> 3]

DevelopmentSections ==
    << [section |-> "worker", value |-> 2],
       [section |-> "database", value |-> 10],
       [section |-> "monitoring", value |-> 30] >>

NoSnapshot == [createDevelopmentConfig EXCEPT !.given = FALSE]

NoHotReload == [given |-> FALSE, enabled |-> FALSE, reloadableFields |-> {}]

TestHotReload ==
    [given |-> TRUE, enabled |-> TRUE,
     reloadableFields |-> {"worker.concurrency", "monitoring.metricsInterval"}]

InitConfigIdle ==
    /\ auditConfig = createDevelopmentConfig
    /\ configObjects = DevelopmentSections
    /\ hotReloadConfig = NoHotReload
    /\ changeHistory = <<>>
    /\ configEvents = <<>>
    /\ held = [c \in Callers |-> NoSnapshot]
    /\ configClock = 1
    /\ configResult = [op |-> "initialize", path |-> "", value |-> 0, outcome |-> "resolved"]

(* Construction state of the client resource: `new BaseResource(options)` with the *)
(* defaults of request() and no request made                                       *)
DefaultClientOptions == [retries |-> 3, backoffMs |-> 100, maxBackoffMs |-> 1000]

NoData == "none"

NoRequestError == "none"

IdleRequest ==
    [pc |-> "idle", attempt |-> 0, delay |-> 0, lastError |-> NoRequestError,
     fetched |-> 0, errors |-> <<>>, waits |-> <<>>, data |-> NoData,
     thrown |-> NoRequestError]

InitClientIdle ==
    /\ clientOptions = DefaultClientOptions
    /\ httpCall = IdleRequest

(* No executeAll call made: no RetryResult yet *)
NoRetryResult ==
    [success |-> FALSE, attempts |-> 0, circuitBreakerTripped |-> FALSE,
     invocations |-> 0, kind |-> "none"]

InitBatchIdle == batch = [pc |-> "idle", results |-> [c \in Calls |-> NoRetryResult]]

(* Construction state of the queue adapter and of the worker pool: nothing         *)
(* enqueued, every consumer idle                                                    *)
JobIds == 1..MaxJobs

Consumers == {"w1", "w2"}

DefaultQueueConfig == [visibilityTimeout |-> 1, maxRetries |-> 1]

EmptyQueue ==
    [waiting |-> <<>>, active |-> {}, completed |-> {}, deadLetter |-> <<>>,
     nacks |-> [j \in JobIds |-> 0], lastError |-> [j \in JobIds |-> "none"],
     enqueued |-> 0, deliveries |-> [j \in JobIds |-> 0], clock |-> 0]

IdleWorker == [job |-> 0, stage |-> "idle", error |-> "none"]

InitQueueIdle ==
    /\ queueConfig = DefaultQueueConfig
    /\ queue = EmptyQueue
    /\ workers = [c \in Consumers |-> IdleWorker]

InitRestIdle == InitClientIdle /\ InitBatchIdle /\ InitQueueIdle

InitServicesIdle == InitLoggerIdle /\ InitHealthIdle /\ InitConfigIdle /\ InitRestIdle

InitGDPRIdle ==
    /\ store = {}
    /\ nextId = 1
    /\ clock = 0
    /\ pseudonymMappings = [p \in OriginalIds |-> NoId]
    /\ gdprResult = [op |-> "none"]
    /\ gdprOps = [pr \in Procs |-> IdleOp]
    /\ gdprStart = NoStart

Init ==
    /\ now = 1
    /\ config \in RetryConfigs
    /\ circuitBreakerConfig \in CircuitBreakerConfigs
    /\ circuitBreakers = [k \in Keys |-> NoStats]
    /\ calls = [c \in Calls |-> IdleCall]
    /\ invoked = 0
    /\ tripUntil = [k \in Keys |-> 0]
    /\ lastRec = [kind |-> "none", key |-> <<"", "">>, prev |-> "absent"]
    /\ InitGDPRIdle
    /\ InitServicesIdle

(* History of the breaker trips: a recorded failure that meets both thresholds *)
Trip(cbs, key, t) ==
    LET stats == getOrCreateCircuitBreakerStats(cbs, key)
        counted == [stats EXCEPT !.failureCount = @ + 1, !.totalRequests = @ + 1]
    IN IF shouldOpen(counted)
       THEN [tripUntil EXCEPT ![key] = t + circuitBreakerConfig.recoveryTimeoutMs]
       ELSE tripUntil

Rec(kind, key) == [kind |-> kind, key |-> key, prev |-> circuitBreakers[key].state]

(* execute(), from entry to the first `await operation()` *)
Start(c, ctx) ==
    LET key == getCircuitBreakerKey(ctx) IN
    /\ calls[c].pc = "idle"
    /\ IF ~config.enabled
       THEN /\ invoked < MaxInvocations
            /\ calls' = [calls EXCEPT ![c] = [IdleCall EXCEPT !.pc = "direct", !.key = key,
                                                              !.invocations = 1]]
            /\ invoked' = invoked + 1
            /\ UNCHANGED circuitBreakers
       ELSE LET chk == IF circuitBreakerConfig.enabled
                       THEN checkCircuitBreaker(circuitBreakers, key, now)
                       ELSE [cbs |-> circuitBreakers, thrown |-> FALSE] IN
            /\ circuitBreakers' = chk.cbs
            /\ IF chk.thrown
               THEN /\ calls' = [calls EXCEPT ![c] =
                          [IdleCall EXCEPT !.pc = "done", !.key = key,
                                           !.result = Result("CircuitBreakerOpenError", NoError, 0)]]
                    /\ UNCHANGED invoked
               ELSE /\ invoked < MaxInvocations
                    /\ calls' = [calls EXCEPT ![c] =
                          [IdleCall EXCEPT !.pc = "running", !.key = key, !.attempt = 1,
                                           !.invocations = 1]]
                    /\ invoked' = invoked + 1
    /\ UNCHANGED <<now, config, circuitBreakerConfig, tripUntil, lastRec>>
    /\ UNCHANGED <<gdprVars, serviceVars>>

(* the awaited operation resolves *)
OpSucceed(c) ==
    /\ calls[c].pc \in {"running", "direct"}
    /\ calls' = [calls EXCEPT ![c].pc = "done",
                              ![c].result = Result("success", NoError, calls[c].attempt)]
    /\ circuitBreakers' =
         IF calls[c].pc = "running" /\ circuitBreakerConfig.enabled
         THEN recordSuccess(circuitBreakers, calls[c].key, now)
         ELSE circuitBreakers
    /\ lastRec' =
         IF calls[c].pc = "running" /\ circuitBreakerConfig.enabled
         THEN Rec("success", calls[c].key)
         ELSE lastRec
    /\ UNCHANGED <<now, config, circuitBreakerConfig, invoked, tripUntil>>
    /\ UNCHANGED <<gdprVars, serviceVars>>

(* the awaited operation rejects with error *)
OpFail(c, error) ==
    /\ calls[c].pc \in {"running", "direct"}
    /\ IF calls[c].pc = "direct"
       THEN /\ calls' = [calls EXCEPT ![c].pc = "done", ![c].thrown = error,
                                      ![c].result = Result("raw", error, 0)]
            /\ UNCHANGED <<circuitBreakers, tripUntil, lastRec>>
       ELSE /\ circuitBreakers' =
                 IF circuitBreakerConfig.enabled
                 THEN recordFailure(circuitBreakers, calls[c].key, now)
                 ELSE circuitBreakers
            /\ tripUntil' =
                 IF circuitBreakerConfig.enabled
                 THEN Trip(circuitBreakers, calls[c].key, now)
                 ELSE tripUntil
            /\ lastRec' =
                 IF circuitBreakerConfig.enabled
                 THEN Rec("failure", calls[c].key)
                 ELSE lastRec
            /\ IF stopRetrying(calls[c].attempt, error)
               THEN calls' = [calls EXCEPT ![c].pc = "done", ![c].lastError = error,
                                           ![c].thrown = error,
                                           ![c].result = RetryExhaustedError(error, calls[c].attempt)]
               ELSE \E delay \in calculateDelay(calls[c].attempt) :
                       calls' = [calls EXCEPT ![c].pc = "sleeping", ![c].lastError = error,
                                              ![c].thrown = error, ![c].slept = TRUE,
                                              ![c].wakeAt = now + delay,
                                              ![c].totalDelay = @ + delay]
    /\ UNCHANGED <<now, config, circuitBreakerConfig, invoked>>
    /\ UNCHANGED <<gdprVars, serviceVars>>

(* the backoff timer fires: attempt++, loop test, next `await operation()` *)
Wake(c) ==
    /\ calls[c].pc = "sleeping"
    /\ now >= calls[c].wakeAt
    /\ invoked < MaxInvocations
    /\ IF calls[c].attempt + 1 <= config.maxAttempts
       THEN calls' = [calls EXCEPT ![c].pc = "running", ![c].attempt = @ + 1,
                                   ![c].invocations = @ + 1]
       ELSE calls' = [calls EXCEPT ![c].pc = "done", ![c].attempt = @ + 1,
                                   ![c].result = RetryExhaustedError(calls[c].lastError,
                                                                     calls[c].attempt + 1)]
    /\ invoked' = IF calls[c].attempt + 1 <= config.maxAttempts THEN invoked + 1 ELSE invoked
    /\ UNCHANGED <<now, config, circuitBreakerConfig, circuitBreakers, tripUntil, lastRec>>
    /\ UNCHANGED <<gdprVars, serviceVars>>

(* the caller has consumed the outcome; the slot serves the next call *)
Finish(c) ==
    /\ calls[c].pc = "done"
    /\ calls' = [calls EXCEPT ![c] = IdleCall]
    /\ UNCHANGED <<now, config, circuitBreakerConfig, circuitBreakers, invoked, tripUntil, lastRec>>
    /\ UNCHANGED <<gdprVars, serviceVars>>

(* resetCircuitBreaker(endpoint): the argument is a full key or a bare endpoint *)
ResetArgs == { <<"/events">>, <<"/events", "GET">> }

resetKey(endpoint) == IF Len(endpoint) = 2 THEN endpoint ELSE <<endpoint[1], "GET">>

resetCircuitBreaker(endpoint) ==
    /\ circuitBreakers[resetKey(endpoint)] # NoStats
    /\ circuitBreakers' = [circuitBreakers EXCEPT ![resetKey(endpoint)] = NoStats]
    /\ tripUntil' = [tripUntil EXCEPT ![resetKey(endpoint)] = 0]
    /\ UNCHANGED <<now, config, circuitBreakerConfig, calls, invoked, lastRec>>
    /\ UNCHANGED <<gdprVars, serviceVars>>

resetAllCircuitBreakers ==
    /\ \E k \in Keys : circuitBreakers[k] # NoStats
    /\ circuitBreakers' = [k \in Keys |-> NoStats]
    /\ tripUntil' = [k \in Keys |-> 0]
    /\ UNCHANGED <<now, config, circuitBreakerConfig, calls, invoked, lastRec>>
    /\ UNCHANGED <<gdprVars, serviceVars>>

Tick ==
    /\ now < MaxTime
    /\ now' = now + 1
    /\ UNCHANGED <<config, circuitBreakerConfig, circuitBreakers, calls, invoked, tripUntil, lastRec>>
    /\ UNCHANGED <<gdprVars, serviceVars>>

Next ==
    \/ \E c \in Calls, ctx \in Contexts : Start(c, ctx)
    \/ \E c \in Calls : OpSucceed(c)
    \/ \E c \in Calls, error \in OpErrors : OpFail(c, error)
    \/ \E c \in Calls : Wake(c)
    \/ \E c \in Calls : Finish(c)
    \/ \E endpoint \in ResetArgs : resetCircuitBreaker(endpoint)
    \/ resetAllCircuitBreakers
    \/ Tick

Spec == Init /\ [][Next]_vars

(* execute(), from entry to the first `await operation()`, on the breakers cbs: the *)
(* breakers afterwards and the call                                                 *)
begin(cbs, ctx) ==
    LET key == getCircuitBreakerKey(ctx)
        chk == IF circuitBreakerConfig.enabled
               THEN checkCircuitBreaker(cbs, key, now)
               ELSE [cbs |-> cbs, thrown |-> FALSE]
    IN  IF ~config.enabled
        THEN [cbs |-> cbs,
              call |-> [IdleCall EXCEPT !.pc = "direct", !.key = key, !.invocations = 1]]
        ELSE IF chk.thrown
        THEN [cbs |-> chk.cbs,
              call |-> [IdleCall EXCEPT !.pc = "done", !.key = key,
                           !.result = Result("CircuitBreakerOpenError", NoError, 0)]]
        ELSE [cbs |-> chk.cbs,
              call |-> [IdleCall EXCEPT !.pc = "running", !.key = key, !.attempt = 1,
                                        !.invocations = 1]]

(* executeAll([op1, op2], [ctx1, ctx2]): operations.map runs each execute to its    *)
(* first await, in index order                                                      *)
executeAll(ctx1, ctx2) ==
    LET first == begin(circuitBreakers, ctx1)
        second == begin(first.cbs, ctx2)
    IN  /\ batch.pc \in {"idle", "returned"}
        /\ \A c \in Calls : calls[c].pc = "idle"
        /\ invoked + 2 <= MaxInvocations
        /\ circuitBreakers' = second.cbs
        /\ calls' = [c \in Calls |-> IF c = "c1" THEN first.call ELSE second.call]
        /\ invoked' = invoked + first.call.invocations + second.call.invocations
        /\ batch' = [pc |-> "pending", results |-> [c \in Calls |-> NoRetryResult]]
        /\ UNCHANGED <<now, config, circuitBreakerConfig, tripUntil, lastRec>>
        /\ UNCHANGED <<gdprVars, loggerVars, healthVars, configVars, clientVars, queueVars>>

(* the RetryResult that executeAll builds from a settled execute: attempts is 1 on  *)
(* success and config.maxAttempts on failure; `error instanceof                     *)
(* CircuitBreakerOpenError` holds for the error of the breaker and for such an      *)
(* error that the operation of a disabled manager threw itself.  The fields         *)
(* invocations and kind are history.                                                *)
RetryResult(call) ==
    [success |-> call.result.kind = "success",
     attempts |-> IF call.result.kind = "success" THEN 1 ELSE config.maxAttempts,
     circuitBreakerTripped |->
        \/ call.result.kind = "CircuitBreakerOpenError"
        \/ call.result.kind = "raw" /\ call.result.originalError.cls = "CircuitBreakerOpenError",
     invocations |-> call.invocations, kind |-> call.result.kind]

(* Promise.all resolves: every execute has settled *)
executeAllSettles ==
    /\ batch.pc = "pending"
    /\ \A c \in Calls : calls[c].pc = "done"
    /\ batch' = [pc |-> "returned", results |-> [c \in Calls |-> RetryResult(calls[c])]]
    /\ calls' = [c \in Calls |-> IdleCall]
    /\ UNCHANGED <<now, config, circuitBreakerConfig, circuitBreakers, invoked, tripUntil, lastRec>>
    /\ UNCHANGED <<gdprVars, loggerVars, healthVars, configVars, clientVars, queueVars>>

ExecuteAllNext ==
    \/ \E ctx1, ctx2 \in Contexts : executeAll(ctx1, ctx2)
    \/ \E c \in Calls : OpSucceed(c)
    \/ \E c \in Calls, error \in OpErrors : OpFail(c, error)
    \/ \E c \in Calls : Wake(c)
    \/ executeAllSettles
    \/ Tick

ExecuteAllSpec == Init /\ [][ExecuteAllNext]_vars

(* One execute() at a time, with up to three attempts, delays that grow and reach   *)
(* maxDelayMs, and operations that throw any of ThrownErrors.                       *)
ExecuteConfigs ==
    { [enabled |-> TRUE, maxAttempts |-> m, initialDelayMs |-> 2, maxDelayMs |-> 3,
       backoffMultiplier |-> 2,
       retryableStatusCodes |-> {408, 429, 500, 502, 503, 504},
       retryableErrors |-> {"ECONNRESET", "ETIMEDOUT", "ENOTFOUND"}]
      : m \in {2, 3} }

ExecuteInit ==
    /\ now = 1
    /\ config \in ExecuteConfigs
    /\ circuitBreakerConfig \in { cbc \in CircuitBreakerConfigs :
                                     cbc.monitoringWindowMs = 3 /\ cbc.minimumRequestThreshold = 3 }
    /\ circuitBreakers = [k \in Keys |-> NoStats]
    /\ calls = [c \in Calls |-> IdleCall]
    /\ invoked = 0
    /\ tripUntil = [k \in Keys |-> 0]
    /\ lastRec = [kind |-> "none", key |-> <<"", "">>, prev |-> "absent"]
    /\ InitGDPRIdle
    /\ InitServicesIdle

ExecuteNext ==
    \/ \E ctx \in Contexts : Start("c1", ctx)
    \/ OpSucceed("c1")
    \/ \E error \in ThrownErrors : OpFail("c1", error)
    \/ Wake("c1")
    \/ Finish("c1")
    \/ Tick

ExecuteSpec == ExecuteInit /\ [][ExecuteNext]_vars

----------------------------------------------------------------------------
(* Part 2: GDPRComplianceService, retention and the service calls *)

(* audit_retention_policy table, in order of creation; 0 is an unset day count.     *)
(* Two active policies act on the same classification: one archives and deletes,    *)
(* the other only deletes what is archived.                                         *)
RetentionPolicies ==
    << [policyName |-> "phi-standard", dataClassification |-> "PHI", retentionDays |-> 6,
        archiveAfterDays |-> 2, deleteAfterDays |-> 4, isActive |-> TRUE],
       [policyName |-> "internal-legacy", dataClassification |-> "INTERNAL", retentionDays |-> 1,
        archiveAfterDays |-> 1, deleteAfterDays |-> 1, isActive |-> FALSE],
       [policyName |-> "phi-purge", dataClassification |-> "PHI", retentionDays |-> 1,
        archiveAfterDays |-> 0, deleteAfterDays |-> 1, isActive |-> TRUE] >>

MinOf(S, default) == IF S = {} THEN default ELSE CHOOSE x \in S : \A y \in S : x <= y
MaxOf(S, default) == IF S = {} THEN default ELSE CHOOSE x \in S : \A y \in S : x >= y

(* Variant: every classification is archived *)
selectToArchive_AnyClassification(st, policy, t) ==
    LET archiveDate == t - (IF policy.archiveAfterDays # 0 THEN policy.archiveAfterDays
                                                         ELSE policy.retentionDays)
    IN IF policy.archiveAfterDays # 0
       THEN { row \in st : row.timestamp <= archiveDate /\ row.archivedAt = NoDay }
       ELSE {}

(* the rows matched by the archival WHERE clause; none if archiveAfterDays is unset *)
selectToArchive(st, policy, t) ==
    LET archiveDate == t - (IF policy.archiveAfterDays # 0 THEN policy.archiveAfterDays
                                                         ELSE policy.retentionDays)
    IN IF policy.archiveAfterDays # 0
       THEN { row \in st : /\ row.dataClassification = policy.dataClassification
                           /\ row.timestamp <= archiveDate
                           /\ row.archivedAt = NoDay }
       ELSE {}

(* Variant: rows archived by this very application are spared *)
selectToDelete_ArchivedEarlier(st, policy, t) ==
    IF policy.deleteAfterDays # 0
    THEN { row \in st : /\ row.dataClassification = policy.dataClassification
                        /\ row.timestamp <= t - policy.deleteAfterDays
                        /\ row.archivedAt # NoDay
                        /\ row.archivedAt # t }
    ELSE {}

(* the rows matched by the DELETE WHERE clause; none if deleteAfterDays is unset *)
selectToDelete(st, policy, t) ==
    IF policy.deleteAfterDays # 0
    THEN { row \in st : /\ row.dataClassification = policy.dataClassification
                        /\ row.timestamp <= t - policy.deleteAfterDays
                        /\ row.archivedAt # NoDay }
    ELSE {}

(* applyRetentionPolicy: the store and the ArchivalResult afterwards *)
applyRetentionPolicy(st, id, policy, t) ==
    LET recordsToArchive == selectToArchive(st, policy, t)
        archived == { IF row \in recordsToArchive THEN [row EXCEPT !.archivedAt = t] ELSE row
                      : row \in st }
        toDelete == selectToDelete(archived, policy, t)
        recordsArchived == Cardinality(recordsToArchive)
        recordsDeleted == Cardinality(toDelete)
        stamps == { row.timestamp : row \in recordsToArchive }
        logged == logGDPRActivity(archived \ toDelete, id,
                     [timestamp |-> t, principalId |-> <<"system">>,
                      action |-> "gdpr.retention.apply", status |-> "success",
                      targetResourceType |-> "RetentionPolicy",
                      targetResourceId |-> <<policy.policyName>>,
                      outcomeDescription |-> <<"Applied retention policy", policy.policyName>>,
                      dataClassification |-> "INTERNAL", retentionPolicy |-> "system",
                      details |-> [policy |-> policy.policyName,
                                   recordsArchived |-> recordsArchived,
                                   recordsDeleted |-> recordsDeleted,
                                   dataClassification |-> policy.dataClassification]])
    IN [store |-> logged, nextId |-> id + 1,
        result |-> [recordsArchived |-> recordsArchived, recordsDeleted |-> recordsDeleted,
                    archivedAt |-> t, policy |-> policy.policyName,
                    summary |->
                      [byClassification |->
                          [cl \in { row.dataClassification : row \in recordsToArchive } |->
                              Cardinality({ row \in recordsToArchive : row.dataClassification = cl })],
                       byAction |->
                          [a \in { row.action : row \in recordsToArchive } |->
                              Cardinality({ row \in recordsToArchive : row.action = a })],
                       dateRange |-> [start |-> MinOf(stamps \cup {t}, t),
                                      end |-> MaxOf(stamps \cup {0}, 0)]]]]

(* the loop of applyRetentionPolicies over policies[from..], results appended *)
RECURSIVE applyPoliciesFrom(_, _, _, _, _, _)
applyPoliciesFrom(policies, from, st, id, results, t) ==
    IF from > Len(policies)
    THEN [store |-> st, nextId |-> id, results |-> results]
    ELSE LET r == applyRetentionPolicy(st, id, policies[from], t)
         IN applyPoliciesFrom(policies, from + 1, r.store, r.nextId,
                              Append(results, r.result), t)

(* history of the loop: per applied policy, the store before and after it *)
RECURSIVE appliedSteps(_, _, _, _, _)
appliedSteps(policies, from, st, id, t) ==
    IF from > Len(policies)
    THEN <<>>
    ELSE LET r == applyRetentionPolicy(st, id, policies[from], t)
         IN <<[policy |-> policies[from], before |-> st, after |-> r.store]>>
            \o appliedSteps(policies, from + 1, r.store, r.nextId, t)

isActivePolicy(policy) == policy.isActive

(* SELECT ... WHERE isActive = 'true' has no ORDER BY: the rows come in any order *)
selectActivePolicies ==
    LET active == SelectSeq(RetentionPolicies, isActivePolicy)
    IN { [i \in 1 .. Len(active) |-> active[perm[i]]] : perm \in Permutations(1 .. Len(active)) }

(* A row as the ingestion worker persists it: sealed with its canonical hash *)
Persisted(id, principalId, action, dataClassification, timestamp) ==
    LET row == [id |-> id, timestamp |-> timestamp, principalId |-> principalId,
                action |-> action, status |-> "success",
                targetResourceType |-> Null, targetResourceId |-> NoId,
                outcomeDescription |-> NoId,
                dataClassification |-> dataClassification, retentionPolicy |-> "standard",
                details |-> NullDetails, hash |-> NoId, hashAlgorithm |-> "SHA-256",
                eventVersion |-> "1.0", archivedAt |-> NoDay]
    IN [row EXCEPT !.hash = canonicalHash(row)]

SeedRows ==
    { Persisted(1, <<"u9">>, "auth.login.failure", "PHI", 1),
      Persisted(2, <<"u9">>, "data.read", "PHI", 2),
      Persisted(3, <<"u9">>, "auth.login.failure", "PHI", 3),
      Persisted(4, <<"u9">>, "data.read", "INTERNAL", 4),
      Persisted(5, <<"u9">>, "data.update", "PHI", 5),
      Persisted(6, <<"admin">>, "data.read", "INTERNAL", 3),
      [Persisted(7, <<"u9">>, "data.read", "PHI", 1) EXCEPT !.archivedAt = 3] }

(* The stores the service is started on: none, a subject with one compliance and    *)
(* one ordinary event, only compliance events, no compliance event, the subject of  *)
(* five events of which two are compliance events, the same beside another user,    *)
(* and a subject with an event that the retention run of day 3 archived             *)
SeedIdSets == { {}, {1, 2}, {1, 3}, {2, 4, 6}, {1, 2, 3, 4, 5}, {1, 2, 3, 4, 5, 6}, {2, 3, 7} }

InitialStores == { { row \in SeedRows : row.id \in ids } : ids \in SeedIdSets }

FirstFreeId == Cardinality(SeedRows) + 1
FirstDay == MaxOf({ row.timestamp : row \in SeedRows }, 0) + 1

InitRetryIdle ==
    /\ now = 1
    /\ config \in { cfg \in RetryConfigs : cfg.enabled /\ cfg.maxAttempts = 2 }
    /\ circuitBreakerConfig \in { cfg \in CircuitBreakerConfigs :
                                     /\ cfg.enabled
                                     /\ cfg.monitoringWindowMs = 3
                                     /\ cfg.minimumRequestThreshold = 2 }
    /\ circuitBreakers = [k \in Keys |-> NoStats]
    /\ calls = [c \in Calls |-> IdleCall]
    /\ invoked = 0
    /\ tripUntil = [k \in Keys |-> 0]
    /\ lastRec = [kind |-> "none", key |-> <<"", "">>, prev |-> "absent"]

GDPRInit ==
    /\ InitRetryIdle
    /\ InitServicesIdle
    /\ store \in InitialStores
    /\ nextId = FirstFreeId
    /\ clock = FirstDay
    /\ pseudonymMappings = [p \in OriginalIds |-> NoId]
    /\ gdprResult = [op |-> "none"]
    /\ gdprOps = [pr \in Procs |-> IdleOp]
    /\ gdprStart = NoStart

CanWrite(id) == id <= FirstFreeId + MaxAuditWrites

Strategies == {"hash", "token", "encryption"}

pseudonymizeUserData(principalId, strategy, requestedBy) ==
    \E token \in Tokens :
      LET r == pseudonymize(store, nextId, pseudonymMappings, principalId, strategy,
                            requestedBy, token, clock) IN
      /\ CanWrite(r.nextId)
      /\ store' = r.store
      /\ nextId' = r.nextId
      /\ pseudonymMappings' = r.mappings
      /\ gdprResult' = [op |-> "pseudonymizeUserData", principalId |-> principalId,
                        requestedBy |-> requestedBy, strategy |-> strategy,
                        pseudonymId |-> r.pseudonymId, recordsAffected |-> r.recordsAffected]
      /\ UNCHANGED clock
      /\ UNCHANGED <<gdprOps, gdprStart>>
      /\ UNCHANGED <<retryVars, serviceVars>>

deleteUserDataWithAuditTrail(principalId, requestedBy, preserveComplianceAudits) ==
    LET r == deleteWithAuditTrail(store, nextId, pseudonymMappings, principalId, requestedBy,
                                  preserveComplianceAudits, clock) IN
    /\ CanWrite(r.nextId)
    /\ store' = r.store
    /\ nextId' = r.nextId
    /\ pseudonymMappings' = r.mappings
    /\ gdprResult' = [op |-> "deleteUserDataWithAuditTrail", principalId |-> principalId,
                      requestedBy |-> requestedBy, preserve |-> preserveComplianceAudits,
                      recordsDeleted |-> r.recordsDeleted,
                      complianceRecordsPreserved |-> r.complianceRecordsPreserved]
    /\ UNCHANGED clock
    /\ UNCHANGED <<gdprOps, gdprStart>>
    /\ UNCHANGED <<retryVars, serviceVars>>

applyRetentionPolicies ==
    \E policies \in selectActivePolicies :
      LET r == applyPoliciesFrom(policies, 1, store, nextId, <<>>, clock) IN
      /\ CanWrite(r.nextId)
      /\ store' = r.store
      /\ nextId' = r.nextId
      /\ gdprResult' = [op |-> "applyRetentionPolicies", results |-> r.results,
                        steps |-> appliedSteps(policies, 1, store, nextId, clock)]
      /\ UNCHANGED <<clock, pseudonymMappings>>
      /\ UNCHANGED <<gdprOps, gdprStart>>
      /\ UNCHANGED <<retryVars, serviceVars>>

DayPasses ==
    /\ clock < MaxDay
    /\ clock' = clock + 1
    /\ UNCHANGED <<store, nextId, pseudonymMappings, gdprResult>>
    /\ UNCHANGED <<gdprOps, gdprStart>>
    /\ UNCHANGED <<retryVars, serviceVars>>

GDPRNext ==
    \/ \E p \in Principals, strategy \in Strategies, requestedBy \in Principals :
          pseudonymizeUserData(p, strategy, requestedBy)
    \/ \E p \in Principals, requestedBy \in Principals, preserve \in BOOLEAN :
          deleteUserDataWithAuditTrail(p, requestedBy, preserve)
    \/ applyRetentionPolicies
    \/ DayPasses

GDPRSpec == GDPRInit /\ [][GDPRNext]_vars

----------------------------------------------------------------------------
(* Part 2: GDPRComplianceService, service calls that overlap.  A call runs from one *)
(* `await` of a database statement to the next; each statement is one step.         *)

ConcurrentInit ==
    /\ InitRetryIdle
    /\ InitServicesIdle
    /\ store \in InitialStores
    /\ nextId = FirstFreeId
    /\ clock = FirstDay
    /\ pseudonymMappings = [p \in OriginalIds |-> NoId]
    /\ gdprResult = [op |-> "none"]
    /\ gdprOps = [pr \in Procs |-> IdleOp]
    /\ gdprStart = [store |-> store, nextId |-> FirstFreeId,
                    mappings |-> [p \in OriginalIds |-> NoId]]

(* pseudonymizeUserData up to `await db.update`: the mapping is stored *)
PseudonymizeBegin(pr, principalId, strategy, requestedBy) ==
    /\ gdprOps[pr].pc = "idle"
    /\ \E token \in Tokens :
          LET pseudonymId == generatePseudonymId(principalId, strategy, token) IN
          /\ pseudonymMappings' = [pseudonymMappings EXCEPT ![principalId] = pseudonymId]
          /\ gdprOps' = [gdprOps EXCEPT ![pr] =
                [IdleOp EXCEPT !.op = "pseudonymizeUserData", !.pc = "update",
                               !.principalId = principalId, !.requestedBy = requestedBy,
                               !.strategy = strategy, !.token = token,
                               !.pseudonymId = pseudonymId]]
    /\ UNCHANGED <<store, nextId, clock, gdprResult, gdprStart>>
    /\ UNCHANGED <<retryVars, serviceVars>>

(* the UPDATE of pseudonymizeUserData *)
PseudonymizeUpdate(pr) ==
    LET o == gdprOps[pr] IN
    /\ o.pc = "update"
    /\ store' = updatePseudonymize(store, o.principalId, o.pseudonymId, clock)
    /\ gdprOps' = [gdprOps EXCEPT
          ![pr].pc = "log.pseudonymize",
          ![pr].recordsAffected = Cardinality({ row \in store : row.principalId = o.principalId })]
    /\ UNCHANGED <<nextId, clock, pseudonymMappings, gdprResult, gdprStart>>
    /\ UNCHANGED <<retryVars, serviceVars>>

(* the audit row of pseudonymizeUserData; the call returns, to its caller or into   *)
(* deleteUserDataWithAuditTrail                                                     *)
PseudonymizeLog(pr) ==
    LET o == gdprOps[pr] IN
    /\ o.pc = "log.pseudonymize"
    /\ store' = logGDPRActivity(store, nextId,
                    pseudonymizeActivity(o.principalId, o.requestedBy, o.pseudonymId,
                                         o.strategy, o.recordsAffected, clock))
    /\ nextId' = nextId + 1
    /\ gdprOps' = IF o.op = "pseudonymizeUserData"
                  THEN [gdprOps EXCEPT ![pr].pc = "done"]
                  ELSE [gdprOps EXCEPT ![pr].pc = "delete",
                                       ![pr].complianceRecordsPreserved = o.recordsAffected]
    /\ UNCHANGED <<clock, pseudonymMappings, gdprResult, gdprStart>>
    /\ UNCHANGED <<retryVars, serviceVars>>

(* deleteUserDataWithAuditTrail up to its DELETE: with preservation, the SELECT of  *)
(* the compliance records and, if there are any, the entry into                     *)
(* pseudonymizeUserData(principalId, 'hash', requestedBy)                           *)
DeleteBegin(pr, principalId, requestedBy, preserve) ==
    LET complianceRecords == { row \in store : row.principalId = principalId /\ isCompliance(row) }
        pseudonymId == generatePseudonymId(principalId, "hash", "tok1")
        called == [IdleOp EXCEPT !.op = "deleteUserDataWithAuditTrail", !.pc = "delete",
                                 !.principalId = principalId, !.requestedBy = requestedBy,
                                 !.preserve = preserve]
    IN
    /\ gdprOps[pr].pc = "idle"
    /\ IF preserve /\ complianceRecords # {}
       THEN /\ pseudonymMappings' = [pseudonymMappings EXCEPT ![principalId] = pseudonymId]
            /\ gdprOps' = [gdprOps EXCEPT ![pr] =
                  [called EXCEPT !.pc = "update", !.strategy = "hash",
                                 !.pseudonymId = pseudonymId]]
       ELSE /\ gdprOps' = [gdprOps EXCEPT ![pr] = called]
            /\ UNCHANGED pseudonymMappings
    /\ UNCHANGED <<store, nextId, clock, gdprResult, gdprStart>>
    /\ UNCHANGED <<retryVars, serviceVars>>

(* the DELETE of deleteUserDataWithAuditTrail *)
DeleteRows(pr) ==
    LET o == gdprOps[pr]
        toDelete == selectToErase(store, o.principalId, o.preserve)
    IN
    /\ o.pc = "delete"
    /\ store' = store \ toDelete
    /\ gdprOps' = [gdprOps EXCEPT ![pr].pc = "log.delete",
                                  ![pr].recordsDeleted = Cardinality(toDelete)]
    /\ UNCHANGED <<nextId, clock, pseudonymMappings, gdprResult, gdprStart>>
    /\ UNCHANGED <<retryVars, serviceVars>>

(* the audit row of deleteUserDataWithAuditTrail; the call returns *)
DeleteLog(pr) ==
    LET o == gdprOps[pr] IN
    /\ o.pc = "log.delete"
    /\ store' = logGDPRActivity(store, nextId,
                    deleteActivity(o.principalId, o.requestedBy, o.recordsDeleted,
                                   o.complianceRecordsPreserved, o.preserve, clock))
    /\ nextId' = nextId + 1
    /\ gdprOps' = [gdprOps EXCEPT ![pr].pc = "done"]
    /\ UNCHANGED <<clock, pseudonymMappings, gdprResult, gdprStart>>
    /\ UNCHANGED <<retryVars, serviceVars>>

(* exportUserData up to the audit row: the SELECT of the subject's rows and the     *)
(* formatting of the result                                                         *)
ExportBegin(pr, principalId, requestedBy, dateRange, format, includeMetadata) ==
    /\ gdprOps[pr].pc = "idle"
    /\ \E token \in Tokens :
       \E auditLogs \in orderByTimestamp(selectForExport(store, principalId, dateRange)) :
          gdprOps' = [gdprOps EXCEPT ![pr] =
             [IdleOp EXCEPT !.op = "exportUserData", !.pc = "log.export",
                            !.principalId = principalId, !.requestedBy = requestedBy,
                            !.dateRange = dateRange, !.token = token,
                            !.format = format, !.includeMetadata = includeMetadata,
                            !.auditLogs = auditLogs,
                            !.data = formatExportData(auditLogs, format, includeMetadata,
                                                      clock)]]
    /\ UNCHANGED <<store, nextId, clock, pseudonymMappings, gdprResult, gdprStart>>
    /\ UNCHANGED <<retryVars, serviceVars>>

(* the audit row of exportUserData; the call returns *)
ExportLog(pr) ==
    LET o == gdprOps[pr] IN
    /\ o.pc = "log.export"
    /\ store' = logGDPRActivity(store, nextId,
                    exportActivity(o.principalId, o.requestedBy,
                                   generateRequestId(clock, o.token), o.format,
                                   Len(o.auditLogs), clock))
    /\ nextId' = nextId + 1
    /\ gdprOps' = [gdprOps EXCEPT
          ![pr].pc = "done",
          ![pr].exported =
             [recordCount |-> Len(o.auditLogs), dataSize |-> Len(o.data),
              metadata |->
                 [dateRange |->
                     IF o.dateRange # NoRange THEN o.dateRange
                     ELSE [start |-> MinOf({ log.timestamp : log \in Range(o.auditLogs) }
                                             \cup {clock}, clock),
                           end |-> MaxOf({ log.timestamp : log \in Range(o.auditLogs) }
                                           \cup {0}, 0)],
                  categories |-> { log.action : log \in Range(o.auditLogs) },
                  retentionPolicies |-> { log.retentionPolicy : log \in Range(o.auditLogs) },
                  exportedBy |-> o.requestedBy]]]
    /\ UNCHANGED <<clock, pseudonymMappings, gdprResult, gdprStart>>
    /\ UNCHANGED <<retryVars, serviceVars>>

(* the data subject of the overlapping calls and the requests made for it *)
Subject == <<"u9">>
Requester == <<"admin">>
DateRanges == { NoRange, [start |-> 2, end |-> 4] }

ConcurrentNext ==
    \/ \E pr \in Procs, strategy \in Strategies :
          PseudonymizeBegin(pr, Subject, strategy, Requester)
    \/ \E pr \in Procs : PseudonymizeUpdate(pr)
    \/ \E pr \in Procs : PseudonymizeLog(pr)
    \/ \E pr \in Procs, preserve \in BOOLEAN : DeleteBegin(pr, Subject, Requester, preserve)
    \/ \E pr \in Procs : DeleteRows(pr)
    \/ \E pr \in Procs : DeleteLog(pr)
    \/ \E pr \in Procs, dateRange \in DateRanges, format \in ExportFormats,
          includeMetadata \in BOOLEAN :
          ExportBegin(pr, Subject, Requester, dateRange, format, includeMetadata)
    \/ \E pr \in Procs : ExportLog(pr)

ConcurrentSpec == ConcurrentInit /\ [][ConcurrentNext]_vars

(* the database rejects the statement that the call awaits: the statement has no    *)
(* effect, the rejection propagates (no method has a try/catch) and the call ends   *)
StatementFails(pr) ==
    /\ gdprOps[pr].pc \in {"update", "log.pseudonymize", "delete", "log.delete", "log.export"}
    /\ gdprOps' = [gdprOps EXCEPT ![pr].pc = "failed"]
    /\ UNCHANGED <<store, nextId, clock, pseudonymMappings, gdprResult, gdprStart>>
    /\ UNCHANGED <<retryVars, serviceVars>>

FailureNext ==
    \/ ConcurrentNext
    \/ \E pr \in Procs : StatementFails(pr)

FailureSpec == ConcurrentInit /\ [][FailureNext]_vars

----------------------------------------------------------------------------
(* Part 2: GDPRComplianceService, the pseudonym mappings of subjects with short and *)
(* long ids                                                                         *)

getPseudonymMapping(originalId) == pseudonymMappings[originalId]

(* getOriginalId: the entries whose pseudonym is pseudonymId; the loop returns the  *)
(* first of them in insertion order, undefined if there is none                     *)
getOriginalId(pseudonymId) ==
    { original \in DOMAIN pseudonymMappings : pseudonymMappings[original] = pseudonymId }

MappingInit ==
    /\ InitRetryIdle
    /\ InitServicesIdle
    /\ store \in InitialStores
    /\ nextId = FirstFreeId
    /\ clock = FirstDay
    /\ pseudonymMappings = [p \in OriginalIds |-> NoId]
    /\ gdprResult = [op |-> "none"]
    /\ gdprOps = [pr \in Procs |-> IdleOp]
    /\ gdprStart = NoStart

MappingNext ==
    \E p \in OriginalIds, strategy \in Strategies :
       pseudonymizeUserData(p, strategy, Requester)

MappingSpec == MappingInit /\ [][MappingNext]_vars

----------------------------------------------------------------------------
(* Part 3: DataMasker and AuditLogger of the client.  A string is a sequence of    *)
(* one-character strings; a metadata value is a record [t, s, f]: t its type, s    *)
(* the characters of a string or number, f the fields of an object in insertion    *)
(* order (the items of an array, with empty keys).                                 *)

Str(s) == [t |-> "string", s |-> s, f |-> <<>>]
Num(s) == [t |-> "number", s |-> s, f |-> <<>>]
Obj(fields) == [t |-> "object", s |-> <<>>, f |-> fields]
Arr(items) == [t |-> "array", s |-> <<>>, f |-> [i \in 1..Len(items) |-> [k |-> <<>>, v |-> items[i]]]]
Undefined == [t |-> "undefined", s |-> <<>>, f |-> <<>>]
NullValue == [t |-> "null", s |-> <<>>, f |-> <<>>]

Digits == {"0", "1", "2", "3", "4", "5", "6", "7", "8", "9"}

LowerLetters ==
    {"a", "b", "c", "d", "e", "f", "g", "h", "i", "j", "k", "l", "m", "n", "o", "p", "q", "r", "s", "t", "u", "v", "w", "x", "y", "z"}

UpperLetters ==
    {"A", "B", "C", "D", "E", "F", "G", "H", "I", "J", "K", "L", "M", "N", "O", "P", "Q", "R", "S", "T", "U", "V", "W", "X", "Y", "Z"}

Letters == LowerLetters \cup UpperLetters

WordChars == Letters \cup Digits \cup {"_"}

Whitespace == {" ", "\t", "\n"}

LowerOf ==
    ("A" :> "a") @@ ("B" :> "b") @@ ("C" :> "c") @@ ("D" :> "d") @@ ("E" :> "e") @@ ("F" :> "f") @@
    ("G" :> "g") @@ ("H" :> "h") @@ ("I" :> "i") @@ ("J" :> "j") @@ ("K" :> "k") @@ ("L" :> "l") @@
    ("M" :> "m") @@ ("N" :> "n") @@ ("O" :> "o") @@ ("P" :> "p") @@ ("Q" :> "q") @@ ("R" :> "r") @@
    ("S" :> "s") @@ ("T" :> "t") @@ ("U" :> "u") @@ ("V" :> "v") @@ ("W" :> "w") @@ ("X" :> "x") @@
    ("Y" :> "y") @@ ("Z" :> "z")


(* String.prototype.toLowerCase *)
toLowerCase(str) ==
    [i \in 1..Len(str) |-> IF str[i] \in UpperLetters THEN LowerOf[str[i]] ELSE str[i]]

(* String.prototype.includes *)
includes(str, sub) ==
    \E i \in 1..(Len(str) - Len(sub) + 1) : SubSeq(str, i, i + Len(sub) - 1) = sub


DEFAULT_SENSITIVE_FIELDS ==
    { <<"p", "a", "s", "s", "w", "o", "r", "d">>,
      <<"t", "o", "k", "e", "n">>,
      <<"a", "p", "i", "K", "e", "y">>,
      <<"a", "u", "t", "h", "o", "r", "i", "z", "a", "t", "i", "o", "n">>,
      <<"c", "o", "o", "k", "i", "e">>,
      <<"s", "e", "s", "s", "i", "o", "n">>,
      <<"s", "e", "c", "r", "e", "t">>,
      <<"k", "e", "y">>,
      <<"s", "s", "n">>,
      <<"s", "o", "c", "i", "a", "l">>,
      <<"c", "r", "e", "d", "i", "t">>,
      <<"c", "a", "r", "d">>,
      <<"c", "v", "v">>,
      <<"p", "i", "n">>,
      <<"e", "m", "a", "i", "l">>,
      <<"p", "h", "o", "n", "e">>,
      <<"a", "d", "d", "r", "e", "s", "s">>,
      <<"d", "o", "b">>,
      <<"b", "i", "r", "t", "h", "d", "a", "t", "e">> }

(* DataMasker.sensitiveFields: the default names as written, the custom names in   *)
(* lower case                                                                       *)
sensitiveFields(customSensitiveFields) ==
    DEFAULT_SENSITIVE_FIELDS \cup { toLowerCase(field) : field \in customSensitiveFields }

containsSensitiveKeyword(fields, key) == \E field \in fields : includes(key, field)

createMask_Uncapped(length) == [i \in 1..length |-> "*"]

createMask(length) == [i \in 1..Min(length, 20) |-> "*"]

(* Regular expressions of sensitivePatterns.  matchEnd gives, for a start position, *)
(* the position of the last character of the match that starts there, 0 if the      *)
(* pattern does not match there.                                                    *)
isWordAt(str, i) == i \in 1..Len(str) /\ str[i] \in WordChars

(* \b just before position i *)
boundaryAt(str, i) == isWordAt(str, i - 1) # isWordAt(str, i)

digitsAt(str, i, n) == i + n - 1 <= Len(str) /\ \A j \in i..(i + n - 1) : str[j] \in Digits

(* the last position of the longest run of class characters starting at i; i - 1   *)
(* when there is none                                                               *)
runEnd(str, i, class) ==
    LET ends == { j \in (i - 1)..Len(str) : \A k \in i..j : str[k] \in class }
    IN  CHOOSE j \in ends : \A k \in ends : k <= j

(* digit groups with a separator between them *)
RECURSIVE groupsEnd(_, _, _, _, _)
groupsEnd(str, i, groups, separators, optional) ==
    IF ~digitsAt(str, i, Head(groups)) THEN 0
    ELSE LET j == i + Head(groups) IN
         IF Len(groups) = 1 THEN j - 1
         ELSE IF j <= Len(str) /\ str[j] \in separators
              THEN groupsEnd(str, j + 1, Tail(groups), separators, optional)
              ELSE IF optional
                   THEN groupsEnd(str, j, Tail(groups), separators, optional)
                   ELSE 0

digitPatternEnd(str, i, groups, separators, optional) ==
    LET e == groupsEnd(str, i, groups, separators, optional)
    IN  IF e # 0 /\ boundaryAt(str, i) /\ boundaryAt(str, e + 1) THEN e ELSE 0

(* /Bearer\s+[...]+=*/gi and /Basic\s+[...]+=*/gi *)
schemeEnd(str, i, scheme, class) ==
    LET w == i + Len(scheme)
        t == runEnd(str, w, Whitespace) + 1
        e == runEnd(str, t, class)
    IN  IF /\ w - 1 <= Len(str)
           /\ toLowerCase(SubSeq(str, i, w - 1)) = scheme
           /\ t > w
           /\ e >= t
        THEN runEnd(str, e + 1, {"="})
        ELSE 0

(* /\b[A-Za-z0-9._%+-]+@[A-Za-z0-9.-]+\.[A-Z|a-z]{2,}\b/g: the local part runs to  *)
(* the `@`; the domain gives back characters to its last `.` that is followed by    *)
(* two or more letters ending at a word boundary, the longest such ending first     *)
emailEnd(str, i) ==
    LET local == Letters \cup Digits \cup {".", "_", "%", "+", "-"}
        domain == Letters \cup Digits \cup {".", "-"}
        tld == Letters \cup {"|"}
        at == runEnd(str, i, local) + 1
        k == runEnd(str, at + 1, domain)
        ends == { pe \in ((at + 2)..k) \X (1..Len(str)) :
                    /\ str[pe[1]] = "."
                    /\ pe[2] >= pe[1] + 2
                    /\ pe[2] <= runEnd(str, pe[1] + 1, tld)
                    /\ boundaryAt(str, pe[2] + 1) }
    IN  IF /\ at > i
           /\ at <= Len(str)
           /\ str[at] = "@"
           /\ boundaryAt(str, i)
           /\ ends # {}
        THEN (CHOOSE pe \in ends :
                 \A qe \in ends : qe[1] < pe[1] \/ (qe[1] = pe[1] /\ qe[2] <= pe[2]))[2]
        ELSE 0

sensitivePatterns == <<"card", "ssn", "email", "phone", "bearer", "basic">>

matchEnd(pattern, str, i) ==
    CASE pattern = "card" ->
            digitPatternEnd(str, i, <<4, 4, 4, 4>>, {"-"} \cup Whitespace, TRUE)
      [] pattern = "ssn" -> digitPatternEnd(str, i, <<3, 2, 4>>, {"-"}, FALSE)
      [] pattern = "email" -> emailEnd(str, i)
      [] pattern = "phone" -> digitPatternEnd(str, i, <<3, 3, 4>>, {"-", "."}, TRUE)
      [] pattern = "bearer" ->
            schemeEnd(str, i, <<"b", "e", "a", "r", "e", "r">>,
                      Letters \cup Digits \cup {"-", ".", "_", "~", "+", "/"})
      [] pattern = "basic" ->
            schemeEnd(str, i, <<"b", "a", "s", "i", "c">>, Letters \cup Digits \cup {"+", "/"})

(* str.replace(pattern, (match) => createMask(match.length)) with the g flag *)
RECURSIVE replaceFrom(_, _, _)
replaceFrom(pattern, str, i) ==
    IF i > Len(str) THEN <<>>
    ELSE LET e == matchEnd(pattern, str, i) IN
         IF e = 0 THEN <<str[i]>> \o replaceFrom(pattern, str, i + 1)
         ELSE createMask(e - i + 1) \o replaceFrom(pattern, str, e + 1)

RECURSIVE maskStringFrom(_, _)
maskStringFrom(str, n) ==
    IF n > Len(sensitivePatterns) THEN str
    ELSE maskStringFrom(replaceFrom(sensitivePatterns[n], str, 1), n + 1)

maskString(str) == maskStringFrom(str, 1)

RECURSIVE mask(_, _)
RECURSIVE maskObject(_, _)

(* DataMasker.mask of a masker with the sensitive names fields *)
mask(fields, data) ==
    CASE data.t = "string" -> Str(maskString(data.s))
      [] data.t \in {"null", "undefined"} -> data
      [] data.t = "array" ->
            [data EXCEPT !.f = [i \in 1..Len(data.f) |->
                                   [k |-> data.f[i].k, v |-> mask(fields, data.f[i].v)]]]
      [] data.t = "object" -> maskObject(fields, data)
      [] OTHER -> data

maskObject(fields, obj) ==
    [obj EXCEPT !.f = [i \in 1..Len(obj.f) |->
        LET key == obj.f[i].k
            value == obj.f[i].v
            lowerKey == toLowerCase(key)
        IN  [k |-> key,
             v |-> IF lowerKey \in fields \/ containsSensitiveKeyword(fields, lowerKey)
                   THEN Str(createMask(IF value.t = "string" THEN Len(value.s) ELSE 8))
                   ELSE mask(fields, value)]]]

(* AuditLogger.  A log entry is [timestamp, level, message, metadata, error]; the  *)
(* fields requestId, correlationId and component are copies of fields that none of *)
(* the operations below writes and are left out.  An absent metadata is Undefined,  *)
(* an absent error NoLoggedError.                                                         *)

LogLevels == {"debug", "info", "warn", "error"}

LOG_LEVELS == [debug |-> 0, info |-> 1, warn |-> 2, error |-> 3]

NoLoggedError == [name |-> "", message |-> <<>>, code |-> ""]

shouldLog(level) == LOG_LEVELS[level] >= LOG_LEVELS[loggerConfig.level]

(* String.prototype.substring: arguments below 0 count as 0, above the length as   *)
(* the length, and are swapped when start > end                                     *)
substring(str, start, end) ==
    LET clamp(n) == IF n < 0 THEN 0 ELSE Min(n, Len(str))
        lo == Min(clamp(start), clamp(end))
        hi == IF clamp(start) >= clamp(end) THEN clamp(start) ELSE clamp(end)
    IN  SubSeq(str, lo + 1, hi)

truncateMessage(message) ==
    IF Len(message) <= loggerConfig.maxLogSize
    THEN message
    ELSE substring(message, 0, loggerConfig.maxLogSize - 3) \o <<".", ".", ".">>

(* a value that `meta ? ... : ...` and `if (headers)` take as false *)
Falsy(value) ==
    \/ value.t \in {"undefined", "null"}
    \/ value.t = "string" /\ value.s = <<>>
    \/ value.t = "number" /\ value.s = <<"0">>

dataMasker(data) == mask(sensitiveFields(loggerConfig.sensitiveFields), data)

ConsoleLine(fn, what, entry) == [fn |-> fn, what |-> what, entry |-> entry]

(* history of a flush: a flush in flight notes that an entry was logged, or the   *)
(* buffer cleared, since it was called; a flush that has returned is forgotten     *)
touched(op, how) ==
    IF op.pc = "awaiting" THEN [op EXCEPT ![how] = TRUE] ELSE IdleFlush

(* AuditLogger.writeLog; sinkOk: the custom logger, when called, neither throws    *)
(* nor rejects                                                                      *)
writeLog_EvictNewest(entry, sinkOk) ==
    /\ buffer' = IF loggerConfig.enableBuffer
                 THEN IF Len(buffer) + 1 > loggerConfig.bufferSize
                      THEN buffer
                      ELSE Append(buffer, entry)
                 ELSE buffer
    /\ recorded' = IF loggerConfig.enableBuffer THEN Append(recorded, entry) ELSE recorded
    /\ retained' = IF loggerConfig.enableBuffer /\ Len(buffer) + 1 <= loggerConfig.bufferSize
                   THEN retained \cup {entry}
                   ELSE retained
    /\ sinkCalls' = IF customLogger /\ ~loggerConfig.enableBuffer
                    THEN Append(sinkCalls, entry)
                    ELSE sinkCalls
    /\ consoleOut' =
          (IF loggerConfig.enableConsole
           THEN Append(consoleOut, ConsoleLine(entry.level, "entry", entry))
           ELSE consoleOut)
          \o (IF customLogger /\ ~loggerConfig.enableBuffer /\ ~sinkOk
              THEN <<ConsoleLine("error", "Custom logger failed", entry)>>
              ELSE <<>>)
    /\ flushOp' = [f \in Flushers |-> touched(flushOp[f], "logged")]

writeLog(entry, sinkOk) ==
    /\ buffer' = IF loggerConfig.enableBuffer
                 THEN LET pushed == Append(buffer, entry)
                      IN  IF Len(pushed) > loggerConfig.bufferSize THEN Tail(pushed) ELSE pushed
                 ELSE buffer
    /\ recorded' = IF loggerConfig.enableBuffer THEN Append(recorded, entry) ELSE recorded
    /\ retained' = IF loggerConfig.enableBuffer
                   THEN LET pushed == Append(buffer, entry)
                        IN  IF Len(pushed) > loggerConfig.bufferSize
                            THEN (retained \cup {entry}) \ {Head(pushed)}
                            ELSE retained \cup {entry}
                   ELSE retained
    /\ sinkCalls' = IF customLogger /\ ~loggerConfig.enableBuffer
                    THEN Append(sinkCalls, entry)
                    ELSE sinkCalls
    /\ consoleOut' =
          (IF loggerConfig.enableConsole
           THEN Append(consoleOut, ConsoleLine(entry.level, "entry", entry))
           ELSE consoleOut)
          \o (IF customLogger /\ ~loggerConfig.enableBuffer /\ ~sinkOk
              THEN <<ConsoleLine("error", "Custom logger failed", entry)>>
              ELSE <<>>)
    /\ flushOp' = [f \in Flushers |-> touched(flushOp[f], "logged")]

(* one call with metadata: what the caller passed, the caller's object after the  *)
(* call, and the metadata of the recorded entry                                    *)
MaskRecord(meta, after, metadata) == [meta |-> meta, after |-> after, metadata |-> metadata]

(* AuditLogger.log (private); given is the metadata as the public method got it    *)
AuditLogger_log(level, message, meta, given, sinkOk) ==
    /\ logClock <= MaxLogCalls
    /\ IF ~shouldLog(level)
       THEN UNCHANGED loggerVars
       ELSE LET metadata == IF Falsy(meta) THEN Undefined
                            ELSE IF loggerConfig.maskSensitiveData THEN dataMasker(meta)
                            ELSE meta
                entry == [timestamp |-> logClock, level |-> level,
                          message |-> truncateMessage(message), metadata |-> metadata,
                          error |-> NoLoggedError]
            IN  /\ writeLog(entry, sinkOk)
                /\ logClock' = logClock + 1
                /\ maskLog' = IF Falsy(given) THEN maskLog
                              ELSE maskLog \cup {MaskRecord(given, given, metadata)}
                /\ UNCHANGED <<loggerConfig, customLogger>>
    /\ UNCHANGED <<retryVars, gdprVars, healthVars, configVars, restVars>>

debug(message, meta, sinkOk) == AuditLogger_log("debug", message, meta, meta, sinkOk)

info(message, meta, sinkOk) == AuditLogger_log("info", message, meta, meta, sinkOk)

warn(message, meta, sinkOk) == AuditLogger_log("warn", message, meta, meta, sinkOk)

AuditLogger_error(message, meta, sinkOk) == AuditLogger_log("error", message, meta, meta, sinkOk)

setLevel(level) ==
    /\ loggerConfig' = [loggerConfig EXCEPT !.level = level]
    /\ UNCHANGED <<customLogger, buffer, logClock, sinkCalls, consoleOut, flushOp, recorded,
                   maskLog, retained>>
    /\ UNCHANGED <<retryVars, gdprVars, healthVars, configVars, restVars>>

clearBuffer ==
    /\ buffer' = <<>>
    /\ recorded' = <<>>
    /\ retained' = retained \ Range(buffer)
    /\ flushOp' = [f \in Flushers |-> touched(flushOp[f], "cleared")]
    /\ UNCHANGED <<loggerConfig, customLogger, logClock, sinkCalls, consoleOut, maskLog>>
    /\ UNCHANGED <<retryVars, gdprVars, healthVars, configVars, restVars>>

HTTP == <<"H", "T", "T", "P">>

Field(k, v) == [k |-> k, v |-> v]

(* the fields of an object literal: the listed ones, those with `if` only when     *)
(* their condition holds                                                            *)
maskedIf(value) == IF loggerConfig.maskSensitiveData THEN dataMasker(value) ELSE value

(* AuditLogger.logRequest *)
requestMetadata(method, url, headers, body, prepare(_)) ==
    Obj(<<Field(<<"t", "y", "p", "e">>, Str(<<"r", "e", "q", "u", "e", "s", "t">>)),
          Field(<<"m", "e", "t", "h", "o", "d">>, Str(method)),
          Field(<<"u", "r", "l">>, Str(url))>>
        \o (IF Falsy(headers) THEN <<>>
            ELSE <<Field(<<"h", "e", "a", "d", "e", "r", "s">>, prepare(headers))>>)
        \o (IF ~Falsy(body) /\ loggerConfig.includeRequestBody
            THEN <<Field(<<"b", "o", "d", "y">>, prepare(body))>>
            ELSE <<>>))

Same(value) == value

logRequest(method, url, headers, body, sinkOk) ==
    AuditLogger_log("info", HTTP \o <<" ">> \o method \o <<" ">> \o url,
        requestMetadata(method, url, headers, body, maskedIf),
        requestMetadata(method, url, headers, body, Same), sinkOk)

(* AuditLogger.logResponse; status is the number and its decimal digits *)
responseMetadata(status, statusText, headers, body, duration, prepare(_)) ==
    Obj(<<Field(<<"t", "y", "p", "e">>, Str(<<"r", "e", "s", "p", "o", "n", "s", "e">>)),
          Field(<<"s", "t", "a", "t", "u", "s">>, Num(status.digits)),
          Field(<<"s", "t", "a", "t", "u", "s", "T", "e", "x", "t">>, Str(statusText))>>
        \o (IF duration.t # "undefined"
            THEN <<Field(<<"d", "u", "r", "a", "t", "i", "o", "n">>, duration)>>
            ELSE <<>>)
        \o (IF Falsy(headers) THEN <<>>
            ELSE <<Field(<<"h", "e", "a", "d", "e", "r", "s">>, prepare(headers))>>)
        \o (IF ~Falsy(body) /\ loggerConfig.includeResponseBody
            THEN <<Field(<<"b", "o", "d", "y">>, prepare(body))>>
            ELSE <<>>))

logResponse(status, statusText, headers, body, duration, sinkOk) ==
    AuditLogger_log(IF status.n >= 400 THEN "error" ELSE IF status.n >= 300 THEN "warn" ELSE "info",
        HTTP \o <<" ">> \o status.digits \o <<" ">> \o statusText,
        responseMetadata(status, statusText, headers, body, duration, maskedIf),
        responseMetadata(status, statusText, headers, body, duration, Same), sinkOk)

(* Object.assign(target, source) for two objects: the fields of source overwrite   *)
(* those of target with the same key and new keys are added after the others       *)
objectAssign(target, source) ==
    LET keysOf(obj) == { obj.f[i].k : i \in 1..Len(obj.f) }
        valueIn(obj, key) == obj.f[CHOOSE i \in 1..Len(obj.f) : obj.f[i].k = key].v
        added == SelectSeq(source.f, LAMBDA fld : fld.k \notin keysOf(target))
    IN  Obj([i \in 1..Len(target.f) |->
                IF target.f[i].k \in keysOf(source)
                THEN Field(target.f[i].k, valueIn(source, target.f[i].k))
                ELSE target.f[i]] \o added)

(* AuditLogger.logError: the message is error.message as it is, the metadata a     *)
(* copy of context with the masked fields assigned over it                          *)
logError(err, context, sinkOk) ==
    /\ logClock <= MaxLogCalls
    /\ LET copy == IF Falsy(context) THEN Obj(<<>>) ELSE Obj(context.f)
           metadata == IF loggerConfig.maskSensitiveData
                       THEN objectAssign(copy, dataMasker(copy))
                       ELSE copy
           entry == [timestamp |-> logClock, level |-> "error", message |-> err.message,
                     metadata |-> metadata, error |-> err]
       IN  /\ writeLog(entry, sinkOk)
           /\ logClock' = logClock + 1
           /\ maskLog' = IF Falsy(context) THEN maskLog
                         ELSE maskLog \cup {MaskRecord(context, context, metadata)}
           /\ UNCHANGED <<loggerConfig, customLogger>>
    /\ UNCHANGED <<retryVars, gdprVars, healthVars, configVars, restVars>>

(* AuditLogger.flush up to its first `await`: without a custom logger nothing      *)
(* happens; with one the buffer is taken and emptied and customLogger.log is       *)
(* called with the first entry                                                      *)
flush_KeepsBuffer(f) ==
    /\ flushOp[f].pc \in {"idle", "returned"}
    /\ IF customLogger /\ buffer # <<>>
       THEN /\ sinkCalls' = Append(sinkCalls, Head(buffer))
            /\ flushOp' = [flushOp EXCEPT ![f] =
                              [IdleFlush EXCEPT !.pc = "awaiting", !.taken = buffer,
                                                !.current = <<Head(buffer)>>,
                                                !.entries = Tail(buffer)]]
       ELSE /\ flushOp' = [flushOp EXCEPT ![f] =
                              [IdleFlush EXCEPT !.pc = "returned", !.taken = buffer,
                                                !.outcome = "resolved"]]
            /\ UNCHANGED sinkCalls
    /\ UNCHANGED <<buffer, recorded>>
    /\ UNCHANGED <<loggerConfig, customLogger, logClock, consoleOut, maskLog, retained>>
    /\ UNCHANGED <<retryVars, gdprVars, healthVars, configVars, restVars>>

flush(f) ==
    /\ flushOp[f].pc \in {"idle", "returned"}
    /\ IF customLogger /\ buffer # <<>>
       THEN /\ buffer' = <<>>
            /\ recorded' = <<>>
            /\ sinkCalls' = Append(sinkCalls, Head(buffer))
            /\ flushOp' = [flushOp EXCEPT ![f] =
                              [IdleFlush EXCEPT !.pc = "awaiting", !.taken = buffer,
                                                !.current = <<Head(buffer)>>,
                                                !.entries = Tail(buffer)]]
       ELSE /\ buffer' = IF customLogger THEN <<>> ELSE buffer
            /\ recorded' = IF customLogger THEN <<>> ELSE recorded
            /\ flushOp' = [flushOp EXCEPT ![f] =
                              [IdleFlush EXCEPT !.pc = "returned", !.taken = buffer,
                                                !.outcome = "resolved"]]
            /\ UNCHANGED sinkCalls
    /\ UNCHANGED <<loggerConfig, customLogger, logClock, consoleOut, maskLog, retained>>
    /\ UNCHANGED <<retryVars, gdprVars, healthVars, configVars, restVars>>

(* the awaited customLogger.log settles: a rejection is reported on the console,   *)
(* then the loop goes on with the next entry or the flush returns                   *)
SinkSettles_RethrowOnFailure(f, ok) ==
    /\ flushOp[f].pc = "awaiting"
    /\ consoleOut' = consoleOut
    /\ IF ok /\ flushOp[f].entries # <<>>
       THEN /\ sinkCalls' = Append(sinkCalls, Head(flushOp[f].entries))
            /\ flushOp' = [flushOp EXCEPT ![f].current = <<Head(flushOp[f].entries)>>,
                                          ![f].entries = Tail(@)]
       ELSE /\ flushOp' = [flushOp EXCEPT ![f].pc = "returned",
                                          ![f].failed = IF ok THEN @ ELSE @ \o flushOp[f].current,
                                          ![f].outcome = IF ok THEN "resolved" ELSE "rejected"]
            /\ UNCHANGED sinkCalls
    /\ UNCHANGED <<loggerConfig, customLogger, buffer, logClock, recorded, maskLog, retained>>
    /\ UNCHANGED <<retryVars, gdprVars, healthVars, configVars, restVars>>

SinkSettles(f, ok) ==
    /\ flushOp[f].pc = "awaiting"
    /\ consoleOut' = IF ok THEN consoleOut
                     ELSE consoleOut \o
                          <<ConsoleLine("error", "Custom logger failed", flushOp[f].current[1]),
                            ConsoleLine("log", "entry", flushOp[f].current[1])>>
    /\ IF flushOp[f].entries # <<>>
       THEN /\ sinkCalls' = Append(sinkCalls, Head(flushOp[f].entries))
            /\ flushOp' = [flushOp EXCEPT ![f].current = <<Head(flushOp[f].entries)>>,
                                          ![f].entries = Tail(@),
                                          ![f].failed = IF ok THEN @ ELSE @ \o flushOp[f].current]
       ELSE /\ flushOp' = [flushOp EXCEPT ![f].pc = "returned",
                                          ![f].failed = IF ok THEN @ ELSE @ \o flushOp[f].current,
                                          ![f].outcome = "resolved"]
            /\ UNCHANGED sinkCalls
    /\ UNCHANGED <<loggerConfig, customLogger, buffer, logClock, recorded, maskLog, retained>>
    /\ UNCHANGED <<retryVars, gdprVars, healthVars, configVars, restVars>>

MetaFlat ==
    Obj(<<Field(<<"u", "s", "e", "r", "n", "a", "m", "e">>, Str(<<"j", "o", "h", "n">>)),
          Field(<<"p", "a", "s", "s", "w", "o", "r", "d">>, Str(<<"s", "e", "c", "r", "e", "t", "1", "2", "3">>)),
          Field(<<"a", "p", "i", "K", "e", "y">>, Str(<<"k", "e", "y", "1", "2", "3">>)),
          Field(<<"d", "a", "t", "a">>, Str(<<"n", "o", "r", "m", "a", "l", " ", "d", "a", "t", "a">>))>>)

MetaFlatOther ==
    Obj(<<Field(<<"u", "s", "e", "r", "n", "a", "m", "e">>, Str(<<"j", "o", "h", "n">>)),
          Field(<<"p", "a", "s", "s", "w", "o", "r", "d">>, Str(<<"h", "u", "n", "t", "e", "r", "2", "2", "2">>)),
          Field(<<"a", "p", "i", "K", "e", "y">>, Str(<<"a", "b", "c", "9", "9", "9">>)),
          Field(<<"d", "a", "t", "a">>, Str(<<"n", "o", "r", "m", "a", "l", " ", "d", "a", "t", "a">>))>>)

MetaNested ==
    Obj(<<Field(<<"u", "s", "e", "r">>, Obj(<<Field(<<"n", "a", "m", "e">>, Str(<<"j", "o", "h", "n">>)),
                Field(<<"c", "r", "e", "d", "e", "n", "t", "i", "a", "l", "s">>, Obj(<<Field(<<"p", "a", "s", "s", "w", "o", "r", "d">>, Str(<<"s", "e", "c", "r", "e", "t">>)),
                      Field(<<"t", "o", "k", "e", "n">>, Str(<<"a", "b", "c", "1", "2", "3">>))>>))>>)),
          Field(<<"m", "e", "t", "a", "d", "a", "t", "a">>, Obj(<<Field(<<"v", "e", "r", "s", "i", "o", "n">>, Str(<<"1", ".", "0">>))>>))>>)

MetaArray ==
    Arr(<<Obj(<<Field(<<"n", "a", "m", "e">>, Str(<<"j", "o", "h", "n">>)),
                Field(<<"p", "a", "s", "s", "w", "o", "r", "d">>, Str(<<"s", "e", "c", "r", "e", "t">>))>>),
          Obj(<<Field(<<"n", "a", "m", "e">>, Str(<<"j", "a", "n", "e">>)),
                Field(<<"a", "p", "i", "K", "e", "y">>, Str(<<"k", "e", "y", "1", "2", "3">>))>>)>>)

MetaLong ==
    Obj(<<Field(<<"A", "u", "t", "h", "o", "r", "i", "z", "a", "t", "i", "o", "n">>, Str(<<"B", "e", "a", "r", "e", "r", " ", "a", "b", "c", "d", "e", "f", "g", "h", "i", "j", "k", "l", "m", "n", "o", "p", "q", "r", "s", "t">>)),
          Field(<<"u", "s", "e", "r", "P", "i", "n">>, Num(<<"1", "2", "3", "4">>)),
          Field(<<"S", "S", "N", "_", "l", "i", "s", "t">>, Arr(<<Str(<<"1", "2", "3", "-", "4", "5", "-", "6", "7", "8", "9">>)>>)),
          Field(<<"n", "o", "t", "e">>, Str(<<"1", "2", "3", "-", "4", "5", "-", "6", "7", "8", "9">>))>>)

MetaLongOther ==
    Obj(<<Field(<<"A", "u", "t", "h", "o", "r", "i", "z", "a", "t", "i", "o", "n">>, Str(<<"B", "e", "a", "r", "e", "r", " ", "A", "B", "C", "D", "E", "F", "G", "H", "I", "J", "K", "L", "M", "N", "O", "P", "Q", "R", "S", "T">>)),
          Field(<<"u", "s", "e", "r", "P", "i", "n">>, Num(<<"1", "2", "3", "4">>)),
          Field(<<"S", "S", "N", "_", "l", "i", "s", "t">>, Arr(<<Str(<<"1", "2", "3", "-", "4", "5", "-", "6", "7", "8", "9">>)>>)),
          Field(<<"n", "o", "t", "e">>, Str(<<"1", "2", "3", "-", "4", "5", "-", "6", "7", "8", "9">>))>>)

MetaDegenerate ==
    Obj(<<Field(<<"p", "a", "s", "s", "w", "o", "r", "d">>, Str(<<>>)),
          Field(<<"t", "o", "k", "e", "n">>, Str(<<"*", "*", "*">>)),
          Field(<<"n", "a", "m", "e">>, Str(<<"j", "o", "h", "n">>))>>)

MetaCustom ==
    Obj(<<Field(<<"c", "u", "s", "t", "o", "m", "F", "i", "e", "l", "d">>, Str(<<"s", "e", "n", "s", "i", "t", "i", "v", "e">>)),
          Field(<<"n", "o", "r", "m", "a", "l", "F", "i", "e", "l", "d">>, Str(<<"n", "o", "r", "m", "a", "l">>)),
          Field(<<"d", "o", "b">>, NullValue)>>)

HeadersAuth ==
    Obj(<<Field(<<"a", "u", "t", "h", "o", "r", "i", "z", "a", "t", "i", "o", "n">>, Str(<<"B", "e", "a", "r", "e", "r", " ", "a", "b", "c", "1", "2", "3">>)),
          Field(<<"a", "c", "c", "e", "p", "t">>, Str(<<"j", "s", "o", "n">>))>>)

BodyUser ==
    Obj(<<Field(<<"e", "m", "a", "i", "l">>, Str(<<"a", "@", "b", ".", "c", "o">>)),
          Field(<<"n", "a", "m", "e">>, Str(<<"j", "a", "n", "e">>))>>)

ErrorContext ==
    Obj(<<Field(<<"c", "o", "n", "t", "e", "x", "t">>, Str(<<"t", "e", "s", "t", " ", "c", "o", "n", "t", "e", "x", "t">>)),
          Field(<<"s", "e", "s", "s", "i", "o", "n", "I", "d">>, Str(<<"a", "b", "c">>))>>)

(* Inputs of the logger specifications *)
Chars(n) == [i \in 1..n |-> "a"]

LongError == [name |-> "Error", message |-> Chars(MaxLogSize + 2), code |-> ""]

GET == <<"G", "E", "T">>

Url == <<"/", "e">>

StatusOK == [n |-> 200, digits |-> <<"2", "0", "0">>]

StatusNotFound == [n |-> 404, digits |-> <<"4", "0", "4">>]

StatusText == <<"O", "K">>

(* buffered loggers of every size up to MaxBufferSize, and one unbuffered logger   *)
(* that writes to the console and straight to the custom logger                     *)
LoggerConfigs ==
    { [DefaultLoggerConfig EXCEPT !.level = "debug", !.enableConsole = FALSE,
                                  !.enableBuffer = TRUE, !.bufferSize = n,
                                  !.maxLogSize = MaxLogSize] : n \in 0..MaxBufferSize }
    \cup { [DefaultLoggerConfig EXCEPT !.level = "debug", !.maxLogSize = 2] }

LoggerInit ==
    /\ InitRetryIdle
    /\ InitGDPRIdle
    /\ InitHealthIdle
    /\ InitConfigIdle
    /\ InitRestIdle
    /\ loggerConfig \in LoggerConfigs
    /\ customLogger \in BOOLEAN
    /\ buffer = <<>>
    /\ logClock = 1
    /\ sinkCalls = <<>>
    /\ consoleOut = <<>>
    /\ flushOp = [f \in Flushers |-> IdleFlush]
    /\ recorded = <<>>
    /\ maskLog = {}
    /\ retained = {}

LoggerNext ==
    \/ \E sinkOk \in BOOLEAN : debug(Chars(1), Undefined, sinkOk)
    \/ \E sinkOk \in BOOLEAN : info(Chars(MaxLogSize + 2), Undefined, sinkOk)
    \/ \E sinkOk \in BOOLEAN : warn(Chars(1), Undefined, sinkOk)
    \/ \E sinkOk \in BOOLEAN : AuditLogger_error(Chars(1), Undefined, sinkOk)
    \/ \E sinkOk \in BOOLEAN : logRequest(GET, Url, Undefined, Undefined, sinkOk)
    \/ \E sinkOk \in BOOLEAN :
          logResponse(StatusNotFound, StatusText, Undefined, Undefined, Undefined, sinkOk)
    \/ \E sinkOk \in BOOLEAN : logError(LongError, Undefined, sinkOk)
    \/ \E level \in {"debug", "warn"} : setLevel(level)
    \/ clearBuffer

LoggerSpec == LoggerInit /\ [][LoggerNext]_vars

(* Loggers that mask, and one that does not, with and without a custom sensitive  *)
(* field name; every log method is called with metadata                             *)
Metas == {MetaFlatOther, MetaLong, MetaLongOther, MetaDegenerate, MetaCustom}

MaskConfigs ==
    { [DefaultLoggerConfig EXCEPT !.level = "debug", !.enableConsole = FALSE,
                                  !.enableBuffer = TRUE, !.bufferSize = 1,
                                  !.includeRequestBody = TRUE,
                                  !.maskSensitiveData = m, !.sensitiveFields = c]
      : m \in BOOLEAN,
        c \in {{}, {<<"c", "u", "s", "t", "o", "m", "F", "i", "e", "l", "d">>}} }

MaskInit ==
    /\ InitRetryIdle
    /\ InitGDPRIdle
    /\ InitHealthIdle
    /\ InitConfigIdle
    /\ InitRestIdle
    /\ loggerConfig \in MaskConfigs
    /\ customLogger = FALSE
    /\ buffer = <<>>
    /\ logClock = 1
    /\ sinkCalls = <<>>
    /\ consoleOut = <<>>
    /\ flushOp = [f \in Flushers |-> IdleFlush]
    /\ recorded = <<>>
    /\ maskLog = {}
    /\ retained = {}

MaskNext ==
    \/ debug(Chars(1), MetaFlat, TRUE)
    \/ \E meta \in Metas : info(Chars(1), meta, TRUE)
    \/ warn(Chars(1), MetaNested, TRUE)
    \/ AuditLogger_error(Chars(1), MetaArray, TRUE)
    \/ logRequest(GET, Url, HeadersAuth, BodyUser, TRUE)
    \/ logResponse(StatusOK, StatusText, HeadersAuth, BodyUser, Num(<<"1", "2">>), TRUE)
    \/ logError(LongError, ErrorContext, TRUE)

MaskSpec == MaskInit /\ [][MaskNext]_vars

(* Buffered loggers with and without a custom logger: log calls, clearBuffer and   *)
(* one caller of flush(), whose awaits let the other calls run in between           *)
FlushInit ==
    /\ LoggerInit
    /\ loggerConfig.enableBuffer

FlushNext ==
    \/ \E sinkOk \in BOOLEAN : info(Chars(1), Undefined, sinkOk)
    \/ \E sinkOk \in BOOLEAN : warn(Chars(1), Undefined, sinkOk)
    \/ clearBuffer
    \/ flush("f1")
    \/ \E ok \in BOOLEAN : SinkSettles("f1", ok)

FlushSpec == FlushInit /\ [][FlushNext]_vars

(* Buffered loggers with several callers of flush(): a flush runs to its first     *)
(* `await`, and while it awaits the custom logger other flushes and log calls run  *)
OverlapNext ==
    \/ \E sinkOk \in BOOLEAN : info(Chars(1), Undefined, sinkOk)
    \/ \E f \in Flushers : flush(f)
    \/ \E f \in Flushers, ok \in BOOLEAN : SinkSettles(f, ok)

OverlapSpec == FlushInit /\ [][OverlapNext]_vars

----------------------------------------------------------------------------
(* Part 4: healthRouter.check of the server.  The handler runs from one `await` to *)
(* the next: health.checkAllComponents(), then error.handleError(...).  A `throw`  *)
(* inside the try block, the SERVICE_UNAVAILABLE error included, lands in the      *)
(* handler's own catch block.                                                      *)

HealthStatuses == {"OK", "WARNING", "CRITICAL"}

HealthInit ==
    /\ InitRetryIdle
    /\ InitGDPRIdle
    /\ InitLoggerIdle
    /\ InitHealthIdle
    /\ InitConfigIdle
    /\ InitRestIdle

(* the query is called: await health.checkAllComponents() *)
check(r) ==
    /\ healthReq[r].pc \in {"idle", "answered"}
    /\ healthReq' = [healthReq EXCEPT ![r] = [IdleHealth EXCEPT !.pc = "checkAllComponents"]]
    /\ UNCHANGED <<retryVars, gdprVars, loggerVars, configVars, restVars>>

(* checkAllComponents resolves with healthStatus: return it when it is OK, else    *)
(* logger.warn, a new SERVICE_UNAVAILABLE error, await error.handleError           *)
ComponentsReport(r, status) ==
    /\ healthReq[r].pc = "checkAllComponents"
    /\ healthReq' = [healthReq EXCEPT ![r] =
         IF status = "OK"
         THEN [@ EXCEPT !.pc = "answered", !.reported = status, !.outcome = "returned"]
         ELSE [@ EXCEPT !.pc = "handleError", !.reported = status,
                        !.code = "SERVICE_UNAVAILABLE",
                        !.logged = Append(@, "warn"),
                        !.handled = Append(@, "SERVICE_UNAVAILABLE")]]
    /\ UNCHANGED <<retryVars, gdprVars, loggerVars, configVars, restVars>>

(* the catch block: logger.error, a new INTERNAL_SERVER_ERROR, await handleError *)
catchBlock(req) ==
    [req EXCEPT !.pc = "catch.handleError", !.code = "INTERNAL_SERVER_ERROR",
                !.logged = Append(@, "error"),
                !.handled = Append(@, "INTERNAL_SERVER_ERROR")]

(* checkAllComponents rejects: control enters the catch block *)
ComponentsThrow(r) ==
    /\ healthReq[r].pc = "checkAllComponents"
    /\ healthReq' = [healthReq EXCEPT ![r] = catchBlock([@ EXCEPT !.reported = "threw"])]
    /\ UNCHANGED <<retryVars, gdprVars, loggerVars, configVars, restVars>>

(* error.handleError of the try block settles; either way the next statement that *)
(* runs is in the catch block: after `throw err` when it resolved, after its own   *)
(* rejection otherwise                                                             *)
HandleErrorSettles(r, resolved) ==
    /\ healthReq[r].pc = "handleError"
    /\ healthReq' = [healthReq EXCEPT ![r] =
                        catchBlock([@ EXCEPT !.settled = Append(@, resolved)])]
    /\ UNCHANGED <<retryVars, gdprVars, loggerVars, configVars, restVars>>

(* error.handleError of the catch block settles: `throw err`, or the rejection of  *)
(* handleError leaves the handler                                                  *)
CatchHandleErrorSettles(r, resolved) ==
    /\ healthReq[r].pc = "catch.handleError"
    /\ healthReq' = [healthReq EXCEPT ![r] =
                        [@ EXCEPT !.pc = "answered", !.outcome = "thrown",
                                  !.settled = Append(@, resolved),
                                  !.code = IF resolved THEN @ ELSE "unknown"]]
    /\ UNCHANGED <<retryVars, gdprVars, loggerVars, configVars, restVars>>

HealthNext ==
    \E r \in Requests :
       \/ check(r)
       \/ \E status \in HealthStatuses : ComponentsReport(r, status)
       \/ ComponentsThrow(r)
       \/ \E resolved \in BOOLEAN : HandleErrorSettles(r, resolved)
       \/ \E resolved \in BOOLEAN : CatchHandleErrorSettles(r, resolved)

HealthSpec == HealthInit /\ [][HealthNext]_vars

----------------------------------------------------------------------------
(* Part 5: ConfigurationManager of the audit package.  The state is the one after   *)
(* `await manager.initialize()`.  An object is a cell of configObjects and a        *)
(* reference is its index: the top-level configuration object holds its scalar      *)
(* fields and one reference per section.  updateConfig publishes a new              *)
(* configuration whose sections are new objects; getConfig hands out a new          *)
(* top-level object whose sections are the live ones.                               *)

ConfigPaths == {"worker.concurrency", "database.poolSize", "monitoring.metricsInterval"}

SectionOf(path) ==
    CASE path = "worker.concurrency" -> "worker"
      [] path = "database.poolSize" -> "database"
      [] path = "monitoring.metricsInterval" -> "monitoring"

Environments == {"development", "staging", "production", "test"}

(* the value at `path` of the configuration object cfg *)
getNestedValue(cfg, path) == configObjects[cfg[SectionOf(path)]].value

(* schema validation of a configuration given by its scalar fields and the values   *)
(* of its sections: the environment is one of the enum, each number is at least 1   *)
validateConfiguration(environment, values) ==
    /\ environment \in Environments
    /\ \A path \in ConfigPaths : values[path] >= 1

ValuesOf(cfg) == [path \in ConfigPaths |-> getNestedValue(cfg, path)]

ConfigCall(op, path, value, outcome) ==
    [op |-> op, path |-> path, value |-> value, outcome |-> outcome]

ConfigInit ==
    /\ InitRetryIdle
    /\ InitGDPRIdle
    /\ InitLoggerIdle
    /\ InitHealthIdle
    /\ InitRestIdle
    /\ auditConfig = createDevelopmentConfig
    /\ configObjects = DevelopmentSections
    /\ hotReloadConfig \in {NoHotReload, TestHotReload}
    /\ changeHistory = <<>>
    /\ configEvents = <<>>
    /\ held = [c \in Callers |-> NoSnapshot]
    /\ configClock = 1
    /\ configResult = ConfigCall("initialize", "", 0, "resolved")

(* getConfig(): a copy of the top-level configuration object *)
getConfig(c) ==
    /\ configClock <= MaxConfigCalls
    /\ held' = [held EXCEPT ![c] = [auditConfig EXCEPT !.given = TRUE]]
    /\ configClock' = configClock + 1
    /\ configResult' = ConfigCall("getConfig", "", 0, "returned")
    /\ UNCHANGED <<auditConfig, configObjects, hotReloadConfig, changeHistory, configEvents>>
    /\ UNCHANGED <<retryVars, gdprVars, loggerVars, healthVars, restVars>>

(* the caller assigns to a field of a section of the object it holds:               *)
(* config.worker.concurrency = -1                                                   *)
CallerAssignsNested(c, path, value) ==
    /\ configClock <= MaxConfigCalls
    /\ held[c].given
    /\ configObjects' = [configObjects EXCEPT ![held[c][SectionOf(path)]].value = value]
    /\ configClock' = configClock + 1
    /\ configResult' = ConfigCall("assign", path, value, "none")
    /\ UNCHANGED <<auditConfig, hotReloadConfig, changeHistory, configEvents, held>>
    /\ UNCHANGED <<retryVars, gdprVars, loggerVars, healthVars, restVars>>

(* the caller assigns to a top-level field of the object it holds *)
CallerAssignsTopLevel(c, environment) ==
    /\ configClock <= MaxConfigCalls
    /\ held[c].given
    /\ held' = [held EXCEPT ![c].environment = environment]
    /\ configClock' = configClock + 1
    /\ configResult' = ConfigCall("assign", "environment", 0, "none")
    /\ UNCHANGED <<auditConfig, configObjects, hotReloadConfig, changeHistory, configEvents>>
    /\ UNCHANGED <<retryVars, gdprVars, loggerVars, healthVars, restVars>>

(* getConfigValue(path) *)
getConfigValue(path) ==
    /\ configClock <= MaxConfigCalls
    /\ configClock' = configClock + 1
    /\ configResult' = ConfigCall("getConfigValue", path, getNestedValue(auditConfig, path),
                                  "returned")
    /\ UNCHANGED <<auditConfig, configObjects, hotReloadConfig, changeHistory, configEvents,
                   held>>
    /\ UNCHANGED <<retryVars, gdprVars, loggerVars, healthVars, restVars>>

(* validateCurrentConfig(): validates the live configuration *)
validateCurrentConfig ==
    /\ configClock <= MaxConfigCalls
    /\ configClock' = configClock + 1
    /\ configResult' = ConfigCall("validateCurrentConfig", "", 0,
          IF validateConfiguration(auditConfig.environment, ValuesOf(auditConfig))
          THEN "resolved" ELSE "rejected")
    /\ UNCHANGED <<auditConfig, configObjects, hotReloadConfig, changeHistory, configEvents,
                   held>>
    /\ UNCHANGED <<retryVars, gdprVars, loggerVars, healthVars, restVars>>

(* may `path` be changed at runtime: with a hot reload configuration, only the      *)
(* fields it lists; a manager constructed without one takes every update            *)
Reloadable(path) == hotReloadConfig.given => path \in hotReloadConfig.reloadableFields

ChangeEvent(path, previousValue, newValue, changedBy) ==
    [field |-> path, previousValue |-> previousValue, newValue |-> newValue,
     changedBy |-> changedBy, timestamp |-> configClock]

ConfigEvent(name, path, previousValue, newValue) ==
    [event |-> name, path |-> path, previousValue |-> previousValue, newValue |-> newValue]

(* the sections of the new configuration: copies of the live ones, `path` set *)
NewSections(path, newValue) ==
    << [section |-> "worker",
        value |-> IF path = "worker.concurrency" THEN newValue
                  ELSE getNestedValue(auditConfig, "worker.concurrency")],
       [section |-> "database",
        value |-> IF path = "database.poolSize" THEN newValue
                  ELSE getNestedValue(auditConfig, "database.poolSize")],
       [section |-> "monitoring",
        value |-> IF path = "monitoring.metricsInterval" THEN newValue
                  ELSE getNestedValue(auditConfig, "monitoring.metricsInterval")] >>

(* updateConfig(path, newValue, changedBy): a field that is not reloadable is left  *)
(* alone; else the new configuration is validated, published with a new version,    *)
(* recorded in the change history and announced                                     *)
updateConfig(path, newValue, changedBy) ==
    /\ configClock <= MaxConfigCalls
    /\ configClock' = configClock + 1
    /\ UNCHANGED <<hotReloadConfig, held>>
    /\ UNCHANGED <<retryVars, gdprVars, loggerVars, healthVars, restVars>>
    /\ LET previousValue == getNestedValue(auditConfig, path)
           newValues == [ValuesOf(auditConfig) EXCEPT ![path] = newValue]
           first == Len(configObjects) + 1
       IN  IF ~Reloadable(path)
           THEN /\ configResult' = ConfigCall("updateConfig", path, newValue, "resolved")
                /\ UNCHANGED <<auditConfig, configObjects, changeHistory, configEvents>>
           ELSE IF ~validateConfiguration(auditConfig.environment, newValues)
           THEN /\ configResult' = ConfigCall("updateConfig", path, newValue, "rejected")
                /\ UNCHANGED <<auditConfig, configObjects, changeHistory, configEvents>>
           ELSE /\ configObjects' = configObjects \o NewSections(path, newValue)
                /\ auditConfig' = [auditConfig EXCEPT !.version = @ + 1,
                                                      !.lastUpdated = configClock,
                                                      !.worker = first,
                                                      !.database = first + 1,
                                                      !.monitoring = first + 2]
                /\ changeHistory' = Append(changeHistory,
                                           ChangeEvent(path, previousValue, newValue, changedBy))
                /\ configEvents' = configEvents
                      \o << ConfigEvent("configChanged", path, previousValue, newValue) >>
                      \o IF hotReloadConfig.enabled /\ path \in hotReloadConfig.reloadableFields
                         THEN << ConfigEvent("hotReload", path, previousValue, newValue) >>
                         ELSE << >>
                /\ configResult' = ConfigCall("updateConfig", path, newValue, "resolved")

NewValues == {-1, 5}

ConfigNext ==
    \/ \E c \in Callers : getConfig(c)
    \/ \E c \in Callers, path \in ConfigPaths : CallerAssignsNested(c, path, -1)
    \/ \E c \in Callers : CallerAssignsTopLevel(c, "production")
    \/ \E path \in ConfigPaths : getConfigValue(path)
    \/ validateCurrentConfig
    \/ \E path \in ConfigPaths, newValue \in NewValues : updateConfig(path, newValue, "test-user")

ConfigSpec == ConfigInit /\ [][ConfigNext]_vars

----------------------------------------------------------------------------
(* Part 6: BaseResource.request of the client.  One attempt is the `fetch` and the  *)
(* reading of its response; it ends with the data or with an error (fetch rejects,  *)
(* the response is not ok, response.json() rejects).  The handler runs from one     *)
(* `await` to the next: the attempt, then the timer of the backoff.                 *)

RequestErrors == {"TypeError: fetch failed", "HTTP error! status: 500", "SyntaxError"}

ResponseData == {"data"}

ClientOptionsSet ==
    [retries : -1..MaxRetries, backoffMs : 0..MaxBackoffMs, maxBackoffMs : 0..MaxBackoffMs]

RequestInit ==
    /\ InitRetryIdle
    /\ InitGDPRIdle
    /\ InitLoggerIdle
    /\ InitHealthIdle
    /\ InitConfigIdle
    /\ InitBatchIdle
    /\ InitQueueIdle
    /\ clientOptions \in ClientOptionsSet
    /\ httpCall = IdleRequest

(* `throw lastError || new Error('Request failed')` *)
throwLastError(call) ==
    [call EXCEPT !.pc = "rejected",
                 !.thrown = IF call.lastError = NoRequestError
                            THEN "Request failed" ELSE call.lastError]

(* the head of the for loop: the next attempt when attempt <= retries, else the     *)
(* statement after the loop                                                         *)
loopHead(call) ==
    IF call.attempt <= clientOptions.retries
    THEN [call EXCEPT !.pc = "fetch", !.fetched = @ + 1]
    ELSE throwLastError(call)

(* request(path, options) is called: lastError = null, delay = backoffMs, attempt 0 *)
request ==
    /\ httpCall.pc \in {"idle", "returned", "rejected"}
    /\ httpCall' = loopHead([IdleRequest EXCEPT !.delay = clientOptions.backoffMs])
    /\ UNCHANGED clientOptions
    /\ UNCHANGED <<retryVars, gdprVars, loggerVars, healthVars, configVars, batchVars, queueVars>>

(* the attempt ends with the data: `return data` *)
AttemptResolves(data) ==
    /\ httpCall.pc = "fetch"
    /\ httpCall' = [httpCall EXCEPT !.pc = "returned", !.data = data]
    /\ UNCHANGED clientOptions
    /\ UNCHANGED <<retryVars, gdprVars, loggerVars, healthVars, configVars, batchVars, queueVars>>

AttemptRejects_SleepAfterLast(error) ==
    /\ httpCall.pc = "fetch"
    /\ httpCall' = [httpCall EXCEPT !.lastError = error, !.errors = Append(@, error),
                                    !.pc = "sleep", !.waits = Append(@, httpCall.delay)]
    /\ UNCHANGED clientOptions
    /\ UNCHANGED <<retryVars, gdprVars, loggerVars, healthVars, configVars, batchVars, queueVars>>

(* the attempt ends with an error: the catch block keeps it, leaves the loop after  *)
(* the last attempt and else starts the timer                                       *)
AttemptRejects(error) ==
    /\ httpCall.pc = "fetch"
    /\ httpCall' =
         LET caught == [httpCall EXCEPT !.lastError = error, !.errors = Append(@, error)]
         IN  IF caught.attempt = clientOptions.retries
             THEN throwLastError(caught)
             ELSE [caught EXCEPT !.pc = "sleep", !.waits = Append(@, caught.delay)]
    /\ UNCHANGED clientOptions
    /\ UNCHANGED <<retryVars, gdprVars, loggerVars, healthVars, configVars, batchVars, queueVars>>

(* the timer fires: delay = Math.min(delay * 2, maxBackoffMs), attempt++ *)
TimerFires ==
    /\ httpCall.pc = "sleep"
    /\ httpCall' = loopHead([httpCall EXCEPT
                               !.delay = Min(@ * 2, clientOptions.maxBackoffMs),
                               !.attempt = @ + 1])
    /\ UNCHANGED clientOptions
    /\ UNCHANGED <<retryVars, gdprVars, loggerVars, healthVars, configVars, batchVars, queueVars>>

RequestNext ==
    \/ request
    \/ \E data \in ResponseData : AttemptResolves(data)
    \/ \E error \in RequestErrors : AttemptRejects(error)
    \/ TimerFires

RequestSpec == RequestInit /\ [][RequestNext]_vars

----------------------------------------------------------------------------
(* Part 7: the reliable queue adapter and the ingestion worker.  The queue keeps    *)
(* the waiting jobs in stream order, the claimed jobs with the time their claim     *)
(* runs out, the acknowledged jobs, and the dead-letter stream.  A consumer of the  *)
(* pool claims one job at a time and takes it through the steps of the worker; the  *)
(* queue answers ack and nack by job id, also when the claim has run out.           *)

ErrorCategories == {"Transient", "InvalidEvent"}

QueueConfigs ==
    { [visibilityTimeout |-> v, maxRetries |-> m] : v \in 1..2, m \in 1..MaxNacks }

QueueInit ==
    /\ InitRetryIdle
    /\ InitGDPRIdle
    /\ InitLoggerIdle
    /\ InitHealthIdle
    /\ InitConfigIdle
    /\ InitClientIdle
    /\ InitBatchIdle
    /\ queueConfig \in QueueConfigs
    /\ queue = EmptyQueue
    /\ workers = [c \in Consumers |-> IdleWorker]

Without(seq, j) == SelectSeq(seq, LAMBDA x : x # j)

ActiveIds(q) == { a.id : a \in q.active }

DeadIds(q) == { q.deadLetter[i].id : i \in DOMAIN q.deadLetter }

Terminal(q, j) == j \in q.completed \/ j \in DeadIds(q)

Released(q, j) == { a \in q.active : a.id # j }

(* enqueue(event): the job joins the stream of waiting jobs *)
enqueue ==
    /\ queue.enqueued < MaxJobs
    /\ queue' = [queue EXCEPT !.enqueued = @ + 1, !.waiting = Append(@, queue.enqueued + 1)]
    /\ UNCHANGED <<queueConfig, workers>>
    /\ UNCHANGED <<retryVars, gdprVars, loggerVars, healthVars, configVars, clientVars, batchVars>>

(* claim(1, visibilityTimeout) by an idle consumer: the first waiting job is        *)
(* delivered to it and is invisible to the others until the claim runs out          *)
claim(c) ==
    /\ workers[c].stage = "idle"
    /\ queue.waiting # <<>>
    /\ LET j == Head(queue.waiting)
       IN  /\ queue' = [queue EXCEPT !.waiting = Tail(@),
                                     !.active = @ \cup {[id |-> j, deadline |-> queue.clock
                                                           + queueConfig.visibilityTimeout]},
                                     !.deliveries[j] = @ + 1]
           /\ workers' = [workers EXCEPT ![c] = [job |-> j, stage |-> "received",
                                                 error |-> "none"]]
    /\ UNCHANGED queueConfig
    /\ UNCHANGED <<retryVars, gdprVars, loggerVars, healthVars, configVars, clientVars, batchVars>>

(* a claim that was not ack'd within visibilityTimeout runs out: the job is         *)
(* visible again and will be delivered again                                        *)
redeliver_Drops(j) ==
    /\ \E a \in queue.active : a.id = j /\ a.deadline <= queue.clock
    /\ queue' = [queue EXCEPT !.active = Released(queue, j)]
    /\ UNCHANGED <<queueConfig, workers>>
    /\ UNCHANGED <<retryVars, gdprVars, loggerVars, healthVars, configVars, clientVars, batchVars>>

redeliver(j) ==
    /\ \E a \in queue.active : a.id = j /\ a.deadline <= queue.clock
    /\ queue' = [queue EXCEPT !.active = Released(queue, j), !.waiting = Append(@, j)]
    /\ UNCHANGED <<queueConfig, workers>>
    /\ UNCHANGED <<retryVars, gdprVars, loggerVars, healthVars, configVars, clientVars, batchVars>>

(* the worker's steps on a job: received -> validated -> hashed -> persisted *)
NextStage(stage) ==
    CASE stage = "received" -> "validated"
      [] stage = "validated" -> "hashed"
      [] stage = "hashed" -> "persisted"

proceed(c) ==
    /\ workers[c].stage \in {"received", "validated", "hashed"}
    /\ workers' = [workers EXCEPT ![c].stage = NextStage(@)]
    /\ UNCHANGED <<queueConfig, queue>>
    /\ UNCHANGED <<retryVars, gdprVars, loggerVars, healthVars, configVars, clientVars, batchVars>>

(* any step can jump to failed: validation with InvalidEvent, the others with a     *)
(* Transient error                                                                  *)
fail(c, errorCategory) ==
    /\ workers[c].stage \in {"received", "validated", "hashed"}
    /\ errorCategory = "InvalidEvent" => workers[c].stage = "received"
    /\ workers' = [workers EXCEPT ![c].stage = "failed", ![c].error = errorCategory]
    /\ UNCHANGED <<queueConfig, queue>>
    /\ UNCHANGED <<retryVars, gdprVars, loggerVars, healthVars, configVars, clientVars, batchVars>>

(* ack(jobId): the job is done, wherever it is; a job that is done or dead-lettered *)
(* stays as it is                                                                   *)
ack(q, j) ==
    IF Terminal(q, j) THEN q
    ELSE [q EXCEPT !.waiting = Without(@, j), !.active = Released(q, j),
                   !.completed = @ \cup {j}]

(* deadLetter(jobId, reason): the job moves to the dead-letter stream *)
deadLetter(q, j, reason) ==
    IF Terminal(q, j) THEN q
    ELSE [q EXCEPT !.waiting = Without(@, j), !.active = Released(q, j),
                   !.lastError[j] = reason,
                   !.deadLetter = Append(@, [id |-> j, reason |-> reason])]

(* scheduleRetry(jobId, delay) once the delay has passed: the job waits again *)
scheduleRetry(q, j) ==
    [q EXCEPT !.waiting = Append(Without(@, j), j), !.active = Released(q, j)]

(* nack(jobId, errorCategory): the nack is counted and the error kept; the          *)
(* maxRetries-th nack moves the job to the dead-letter stream, an earlier one       *)
(* schedules the retry                                                              *)
nack(q, j, errorCategory) ==
    IF Terminal(q, j) THEN q
    ELSE LET counted == [q EXCEPT !.nacks[j] = @ + 1, !.lastError[j] = errorCategory]
         IN  IF counted.nacks[j] >= queueConfig.maxRetries
             THEN deadLetter(counted, j, errorCategory)
             ELSE scheduleRetry(counted, j)

(* the last step of the worker on a job: persisted -> acked, or failed -> nack or   *)
(* dead-letter (InvalidEvent is not retryable)                                      *)
settle(c) ==
    /\ workers[c].stage \in {"persisted", "failed"}
    /\ queue' = IF workers[c].stage = "persisted" THEN ack(queue, workers[c].job)
                ELSE IF workers[c].error = "InvalidEvent"
                     THEN deadLetter(queue, workers[c].job, workers[c].error)
                     ELSE nack(queue, workers[c].job, workers[c].error)
    /\ workers' = [workers EXCEPT ![c] = IdleWorker]
    /\ UNCHANGED queueConfig
    /\ UNCHANGED <<retryVars, gdprVars, loggerVars, healthVars, configVars, clientVars, batchVars>>

(* time passes *)
QueueTick ==
    /\ queue.clock < MaxQueueTime
    /\ queue' = [queue EXCEPT !.clock = @ + 1]
    /\ UNCHANGED <<queueConfig, workers>>
    /\ UNCHANGED <<retryVars, gdprVars, loggerVars, healthVars, configVars, clientVars, batchVars>>

QueueNext ==
    \/ enqueue
    \/ \E c \in Consumers : claim(c)
    \/ \E j \in JobIds : redeliver(j)
    \/ \E c \in Consumers : proceed(c)
    \/ \E c \in Consumers, errorCategory \in ErrorCategories : fail(c, errorCategory)
    \/ \E c \in Consumers : settle(c)
    \/ QueueTick

QueueSpec == QueueInit /\ [][QueueNext]_vars

(* the queue delivers a waiting job to an idle consumer, a claim that has run out   *)
(* is noticed, and a consumer that holds a job goes on with it                      *)
QueueFairSpec ==
    /\ QueueSpec
    /\ \A c \in Consumers : WF_vars(claim(c))
    /\ \A j \in JobIds : WF_vars(redeliver(j))
    /\ \A c \in Consumers : WF_vars(proceed(c) \/ settle(c))

----------------------------------------------------------------------------
(* Properties of the RetryManager *)

StatsOf(k) == circuitBreakers[k]

(* the step in which call c enters execute() *)
Started(c) == calls[c].pc = "idle" /\ calls'[c].pc # "idle"

(* the step in which the awaited operation of call c rejects / resolves *)
FailedOn(c) == calls[c].pc = "running" /\ calls'[c].pc # "running"
                  /\ calls'[c].result.kind # "success"
SucceededOn(c) == calls[c].pc = "running" /\ calls'[c].result.kind = "success"

Rejected(c) == calls'[c].result.kind = "CircuitBreakerOpenError" /\ calls'[c].invocations = 0

C4_RetryOnlyRetryable ==
    [][\A c \in Calls :
          /\ calls'[c].invocations <= config.maxAttempts
          /\ (calls[c].pc # "idle" /\ calls'[c].invocations > calls[c].invocations
                => calls[c].pc = "sleeping" /\ shouldRetry(calls[c].thrown))
          /\ (FailedOn(c) /\ ~shouldRetry(calls'[c].thrown)
                => calls'[c].pc = "done" /\ calls'[c].slept = calls[c].slept)]_vars

C4_Witness ==
    \E c \in Calls :
        /\ calls[c].pc = "done"
        /\ calls[c].result.kind = "RetryExhaustedError"
        /\ ~shouldRetry(calls[c].thrown)
        /\ calls[c].invocations = 1
        /\ config.maxAttempts = 2
        /\ ~calls[c].slept

TrialSucceeds(k) ==
    /\ StatsOf(k).state = HALF_OPEN
    /\ \E c \in Calls : SucceededOn(c) /\ calls[c].key = k

TrialFails(k) ==
    /\ StatsOf(k).state = HALF_OPEN
    /\ \E c \in Calls : FailedOn(c) /\ calls[c].key = k

C8_SingleTrial ==
    [][\A c \in Calls :
          Started(c) /\ StatsOf(calls'[c].key).state = HALF_OPEN
          => calls'[c].invocations = 0]_vars

C10_StaleFailuresDropped ==
    [][\A c \in Calls :
          /\ FailedOn(c)
          /\ StatsOf(calls[c].key).state # "absent"
          /\ StatsOf(calls[c].key).lastFailureTime # 0
          /\ StatsOf(calls[c].key).lastFailureTime < now - circuitBreakerConfig.monitoringWindowMs
          => /\ StatsOf(calls[c].key)'.failureCount = 1
             /\ StatsOf(calls[c].key)'.totalRequests = 1]_vars

(* C11: a CircuitBreakerOpenError thrown by the operation is never retried,         *)
(* whatever its message contains: shouldRetry is false for it and execute ends      *)
(* without sleeping or invoking the operation again.                                *)
C11_BreakerErrorNeverRetried ==
    [][\A c \in Calls :
          FailedOn(c) /\ calls'[c].thrown.cls = "CircuitBreakerOpenError"
          => /\ ~shouldRetry(calls'[c].thrown)
             /\ calls'[c].pc = "done"]_vars

(* C12: while attempts remain, a failed attempt is followed by a retry if and only  *)
(* if the error is an HttpError with a status in retryableStatusCodes, or its       *)
(* message matches a network pattern or a timeout pattern.                          *)
C12_RetryClassification ==
    [][\A c \in Calls :
          FailedOn(c) /\ calls[c].attempt < config.maxAttempts
          => LET error == calls'[c].thrown IN
             (calls'[c].pc = "sleeping"
                <=> \/ error.cls = "HttpError" /\ error.status \in config.retryableStatusCodes
                    \/ isNetworkError(error)
                    \/ isTimeoutError(error))]_vars

(* the bound of the claim on the sleep after failed attempt n *)
DelayBound(n) ==
    Min(config.initialDelayMs * Pow(config.backoffMultiplier, n - 1), config.maxDelayMs)

RECURSIVE TotalDelayBound(_)
TotalDelayBound(k) == IF k <= 1 THEN 0 ELSE DelayBound(k - 1) + TotalDelayBound(k - 1)

(* C13: the sleep after failed attempt n is an integer between 0 and                *)
(* min(initialDelayMs * backoffMultiplier^(n-1), maxDelayMs), and an execute that   *)
(* succeeds on attempt k has slept at most the sum of these bounds for n = 1..k-1.  *)
C13_BackoffBound ==
    [][\A c \in Calls :
          /\ (calls[c].pc = "running" /\ calls'[c].pc = "sleeping"
                => /\ calls'[c].wakeAt - now \in 0 .. DelayBound(calls[c].attempt)
                   /\ calls'[c].totalDelay = calls[c].totalDelay + (calls'[c].wakeAt - now))
          /\ (SucceededOn(c) => calls'[c].totalDelay <= TotalDelayBound(calls[c].attempt))]_vars

C13_Witness ==
    \E c \in Calls :
        /\ calls[c].pc = "done"
        /\ calls[c].result.kind = "success"
        /\ calls[c].result.attempts = 3
        /\ calls[c].totalDelay = 3
        /\ TotalDelayBound(3) = 5

----------------------------------------------------------------------------
(* Properties of the GDPRComplianceService *)

(* the step of an applyRetentionPolicies call *)
RetentionApplied ==
    /\ nextId' # nextId
    /\ gdprResult'.op = "applyRetentionPolicies"

RowsWithId(st, id) == { row \in st : row.id = id }

(* C14: after applyRetentionPolicy(P) with deleteAfterDays set, the store holds no  *)
(* event of P's classification with timestamp <= now - deleteAfterDays and          *)
(* archivedAt set, the events archived by this application included.                *)
C14_NoExpiredArchivedEvent ==
    [][RetentionApplied =>
          \A i \in DOMAIN gdprResult'.steps :
             LET step == gdprResult'.steps[i] IN
             step.policy.deleteAfterDays # 0
             => \A row \in step.after :
                   ~ /\ row.dataClassification = step.policy.dataClassification
                     /\ row.timestamp <= clock - step.policy.deleteAfterDays
                     /\ row.archivedAt # NoDay]_vars

(* one application archived an event and deleted it at once *)
C14_Witness ==
    /\ gdprResult.op = "applyRetentionPolicies"
    /\ \E i \in DOMAIN gdprResult.steps :
          LET step == gdprResult.steps[i] IN
          /\ step.policy.archiveAfterDays # 0
          /\ step.policy.deleteAfterDays # 0
          /\ \E row \in step.before :
                /\ row.archivedAt = NoDay
                /\ row.dataClassification = step.policy.dataClassification
                /\ RowsWithId(step.after, row.id) = {}

(* C15: applyRetentionPolicy(P) sets archivedAt only on events of P's               *)
(* classification with timestamp <= now - archiveAfterDays and archivedAt null,     *)
(* deletes only events of P's classification that are archived and have timestamp   *)
(* <= now - deleteAfterDays, never deletes an event that is not archived, and       *)
(* leaves every other event as it was.                                              *)
C15_RetentionFrame ==
    [][RetentionApplied =>
          \A i \in DOMAIN gdprResult'.steps :
             LET step == gdprResult'.steps[i]
                 P == step.policy
                 selected(row) == /\ P.archiveAfterDays # 0
                                  /\ row.dataClassification = P.dataClassification
                                  /\ row.timestamp <= clock - P.archiveAfterDays
                                  /\ row.archivedAt = NoDay
             IN \A row \in step.before :
                   \/ row \in step.after
                   \/ /\ selected(row)
                      /\ [row EXCEPT !.archivedAt = clock] \in step.after
                   \/ /\ RowsWithId(step.after, row.id) = {}
                      /\ P.deleteAfterDays # 0
                      /\ row.dataClassification = P.dataClassification
                      /\ row.timestamp <= clock - P.deleteAfterDays
                      /\ (row.archivedAt # NoDay \/ selected(row))]_vars

(* one application archived an event, deleted another, and passed over a younger    *)
(* event of the same classification and an event of another classification that is *)
(* past the archival age                                                            *)
C15_Witness ==
    /\ gdprResult.op = "applyRetentionPolicies"
    /\ \E i \in DOMAIN gdprResult.steps :
          LET step == gdprResult.steps[i]
              P == step.policy
              day == gdprResult.results[i].archivedAt
          IN /\ \E row \in step.before :
                   row.archivedAt = NoDay /\ [row EXCEPT !.archivedAt = day] \in step.after
             /\ \E row \in step.before : RowsWithId(step.after, row.id) = {}
             /\ \E row \in step.before \cap step.after :
                   /\ row.dataClassification = P.dataClassification
                   /\ row.timestamp > day - P.archiveAfterDays
             /\ \E row \in step.before \cap step.after :
                   /\ row.dataClassification # P.dataClassification
                   /\ row.timestamp <= day - P.archiveAfterDays

(* C16: applyRetentionPolicies applies the active policies, and only those, in      *)
(* order of creation, returns one result per applied policy in that order, and      *)
(* leaves the store that this order produces.                                       *)
C16_PoliciesInCreationOrder ==
    [][RetentionApplied =>
          LET active == SelectSeq(RetentionPolicies, isActivePolicy)
              r == applyPoliciesFrom(active, 1, store, nextId, <<>>, clock)
          IN /\ Len(gdprResult'.results) = Len(active)
             /\ \A i \in DOMAIN active : gdprResult'.results[i].policy = active[i].policyName
             /\ store' = r.store]_vars

(* the step of a deleteUserDataWithAuditTrail call with preserveComplianceAudits *)
ErasedWithPreservation ==
    /\ nextId' # nextId
    /\ gdprResult'.op = "deleteUserDataWithAuditTrail"
    /\ gdprResult'.preserve

(* C2: erasure with preservation of a subject with n events, c of them compliance   *)
(* events, returns recordsDeleted = n - c and complianceRecordsPreserved = c, and   *)
(* leaves exactly the c compliance events, under the subject's pseudonym and marked *)
(* pseudonymized.                                                                   *)
C2_ErasureKeepsComplianceOnly ==
    [][ErasedWithPreservation =>
          LET p == gdprResult'.principalId
              mine == { row \in store : row.principalId = p }
              compliance == { row \in mine : isCompliance(row) }
              left == { row \in store' : row.id \in { r.id : r \in mine } }
          IN /\ gdprResult'.recordsDeleted = Cardinality(mine) - Cardinality(compliance)
             /\ gdprResult'.complianceRecordsPreserved = Cardinality(compliance)
             /\ { row.id : row \in left } = { row.id : row \in compliance }
             /\ \A row \in left :
                   /\ row.principalId = generatePseudonymId(p, "hash", "tok1")
                   /\ "pseudonymized" \in DOMAIN row.details
                   /\ row.details["pseudonymized"] = TRUE]_vars

(* the step of a deleteUserDataWithAuditTrail call *)
Erased ==
    /\ nextId' # nextId
    /\ gdprResult'.op = "deleteUserDataWithAuditTrail"

(* C17: after deleteUserDataWithAuditTrail(p, requestedBy, preserve), for either    *)
(* value of preserve and every requestedBy, p itself included, the store holds no   *)
(* event whose principalId is p.                                                    *)
C17_NoEventOfSubjectLeft ==
    [][Erased => \A row \in store' : row.principalId # gdprResult'.principalId]_vars

(* C18: an event whose archivedAt is set is read-only: every step leaves it as it   *)
(* is or removes it.                                                                *)
C18_ArchivedReadOnly ==
    [][\A row \in store :
          row.archivedAt # NoDay => row \in store' \/ RowsWithId(store', row.id) = {}]_vars

(* the step of a pseudonymizeUserData(p, ...) call *)
Pseudonymized(p) ==
    /\ nextId' # nextId
    /\ gdprResult'.op = "pseudonymizeUserData"
    /\ gdprResult'.principalId = p

(* the strategy that produced a pseudonym *)
StrategyOf(pseudonymId) ==
    IF pseudonymId[1] = "pseudo-enc-" THEN "encryption"
    ELSE IF pseudonymId[2] = "hex" THEN "token"
    ELSE "hash"

(* C20: once an originalId has a pseudonym, a later pseudonymizeUserData call with  *)
(* the same strategy, hash or token, leaves getPseudonymMapping(originalId) as it   *)
(* was, and the lookup is the principalId the call writes into the subject's events. *)
C20_PseudonymLookupStable ==
    [][\A p \in Principals :
          Pseudonymized(p)
          => /\ (/\ pseudonymMappings[p] # NoId
                 /\ gdprResult'.strategy \in {"hash", "token"}
                 /\ gdprResult'.strategy = StrategyOf(pseudonymMappings[p])
                 => pseudonymMappings'[p] = pseudonymMappings[p])
             /\ \A row \in store :
                   row.principalId = p
                   => \E after \in RowsWithId(store', row.id) :
                         after.principalId = pseudonymMappings'[p]]_vars

(* a call with the arguments and random draws of o, run alone on s: the store, id   *)
(* sequence and mappings afterwards and what it returns                             *)
RunAlone(o, s) ==
    CASE o.op = "pseudonymizeUserData" ->
           LET r == pseudonymize(s.store, s.nextId, s.mappings, o.principalId, o.strategy,
                                 o.requestedBy, o.token, clock)
           IN [store |-> r.store, nextId |-> r.nextId, mappings |-> r.mappings,
               result |-> <<r.pseudonymId, r.recordsAffected>>]
      [] o.op = "deleteUserDataWithAuditTrail" ->
           LET r == deleteWithAuditTrail(s.store, s.nextId, s.mappings, o.principalId,
                                         o.requestedBy, o.preserve, clock)
           IN [store |-> r.store, nextId |-> r.nextId, mappings |-> r.mappings,
               result |-> <<r.recordsDeleted, r.complianceRecordsPreserved>>]
      [] o.op = "exportUserData" ->
           LET r == export(s.store, s.nextId, o.principalId, o.requestedBy, o.dateRange,
                           o.format, o.token, clock)
           IN [store |-> r.store, nextId |-> r.nextId, mappings |-> s.mappings,
               result |-> <<r.recordCount, r.auditLogs>>]

(* what the finished call o has returned *)
Returned(o) ==
    CASE o.op = "pseudonymizeUserData" -> <<o.pseudonymId, o.recordsAffected>>
      [] o.op = "deleteUserDataWithAuditTrail" -> <<o.recordsDeleted, o.complianceRecordsPreserved>>
      [] o.op = "exportUserData" -> <<Len(o.auditLogs), Range(o.auditLogs)>>

(* the rows of a store without the ids that the id sequence gave them *)
Content(st) == { [row EXCEPT !.id = 0] : row \in st }

(* C19: when two GDPR calls for one subject have both returned, the store and both  *)
(* results are those of one of the two serial orders of the calls.                  *)
C19_SerializedPerSubject ==
    (\A pr \in Procs : gdprOps[pr].pc = "done")
    => \E first \in Procs : \E second \in Procs \ {first} :
          LET s1 == RunAlone(gdprOps[first], gdprStart)
              s2 == RunAlone(gdprOps[second], s1)
          IN /\ Content(store) = Content(s2.store)
             /\ Cardinality(store) = Cardinality(s2.store)
             /\ Returned(gdprOps[first]) = s1.result
             /\ Returned(gdprOps[second]) = s2.result

(* C21: two different originalIds never share a pseudonymId: for every mapped       *)
(* originalId, getOriginalId(getPseudonymMapping(originalId)) is that originalId,   *)
(* under each strategy.                                                             *)
C21_PseudonymOneToOne ==
    \A originalId \in OriginalIds :
       getPseudonymMapping(originalId) # NoId
       => getOriginalId(getPseudonymMapping(originalId)) = {originalId}

(* the audit events of an action about a subject *)
AuditEvents(action, principalId) ==
    { row \in store : row.action = action /\ row.targetResourceId = principalId }

(* C22: when no call is in flight, every call that changed rows of the store has    *)
(* its audit event in the store (gdpr.data.pseudonymize for rewritten rows,         *)
(* gdpr.data.delete for deleted rows, gdpr.data.export for a returned export), and  *)
(* there is at most one event of an action per call, also after a failed write.     *)
C22_EveryOperationAudited ==
    (\A pr \in Procs : gdprOps[pr].pc \in {"idle", "done", "failed"})
    => /\ \A pr \in Procs :
             LET o == gdprOps[pr] IN
             /\ o.recordsAffected > 0
                  => \E row \in AuditEvents("gdpr.data.pseudonymize", o.principalId) :
                        row.details["recordsAffected"] = o.recordsAffected
             /\ o.recordsDeleted > 0
                  => \E row \in AuditEvents("gdpr.data.delete", o.principalId) :
                        row.details["recordsDeleted"] = o.recordsDeleted
             /\ o.op = "exportUserData" /\ o.pc = "done"
                  => AuditEvents("gdpr.data.export", o.principalId) # {}
       /\ Cardinality(AuditEvents("gdpr.data.pseudonymize", Subject))
             <= Cardinality({ pr \in Procs : gdprOps[pr].pseudonymId # NoId })
       /\ Cardinality(AuditEvents("gdpr.data.delete", Subject))
             <= Cardinality({ pr \in Procs : gdprOps[pr].op = "deleteUserDataWithAuditTrail" })
       /\ Cardinality(AuditEvents("gdpr.data.export", Subject))
             <= Cardinality({ pr \in Procs : gdprOps[pr].op = "exportUserData" })

(* the steps of an exportUserData call of caller pr: its SELECT, and its return *)
ExportSelected(pr) == gdprOps[pr].pc = "idle" /\ gdprOps'[pr].op = "exportUserData"
ExportReturned(pr) == gdprOps[pr].pc = "log.export" /\ gdprOps'[pr].pc = "done"

InRange(row, dateRange) ==
    dateRange # NoRange => row.timestamp >= dateRange.start /\ row.timestamp <= dateRange.end

(* the audit logs that an export buffer holds, in the order of the buffer *)
LogsIn(data) == SelectSeq(data, LAMBDA piece : "log" \in DOMAIN piece)

(* C23: exportUserData returns the events of the store whose principalId is the     *)
(* request's and whose timestamp lies in the dateRange, if one is given, and no     *)
(* other, in order of timestamp; recordCount is their number, dataSize the length   *)
(* of data, and the audit event of the export itself is not in the data.            *)
C23_ExportReturnsSubjectEvents ==
    [][\A pr \in Procs :
          /\ ExportSelected(pr)
                => LET o == gdprOps'[pr] IN
                   /\ Range(o.auditLogs)
                         = { row \in store : row.principalId = o.principalId
                                              /\ InRange(row, o.dateRange) }
                   /\ Len(o.auditLogs) = Cardinality(Range(o.auditLogs))
                   /\ \A i, j \in DOMAIN o.auditLogs :
                         i < j => o.auditLogs[i].timestamp <= o.auditLogs[j].timestamp
                   /\ [i \in DOMAIN LogsIn(o.data) |-> LogsIn(o.data)[i].log] = o.auditLogs
          /\ ExportReturned(pr)
                => LET o == gdprOps'[pr] IN
                   /\ o.exported.recordCount = Len(o.auditLogs)
                   /\ o.exported.dataSize = Len(o.data)
                   /\ \A row \in store' \ store : row \notin Range(o.auditLogs)]_vars

(* an export over a date range has returned two of the subject's events and left    *)
(* out an older one that is still in the store                                      *)
C23_Witness ==
    \E pr \in Procs :
       LET o == gdprOps[pr] IN
       /\ o.op = "exportUserData"
       /\ o.pc = "done"
       /\ o.dateRange # NoRange
       /\ o.exported.recordCount = 2
       /\ o.exported.dataSize > 2
       /\ \E row \in store : row.principalId = o.principalId /\ ~InRange(row, o.dateRange)

(* C28: health check.  A request that checkAllComponents answered with OK returns *)
(* that status; a request it answered with any other status ends with a           *)
(* SERVICE_UNAVAILABLE error; and a request ends with INTERNAL_SERVER_ERROR only   *)
(* when checkAllComponents itself threw.                                           *)
C28_HealthCheckCodes ==
    \A r \in Requests :
       healthReq[r].pc = "answered" =>
          /\ healthReq[r].reported = "OK" => healthReq[r].outcome = "returned"
          /\ healthReq[r].reported \in HealthStatuses \ {"OK"} =>
                /\ healthReq[r].outcome = "thrown"
                /\ healthReq[r].code = "SERVICE_UNAVAILABLE"
          /\ healthReq[r].code = "INTERNAL_SERVER_ERROR" => healthReq[r].reported = "threw"

(* C25: the buffer is a bounded ring.  With buffering enabled the buffer never    *)
(* holds more than bufferSize entries, and it holds the last min(n, bufferSize) of *)
(* the n entries recorded since it was last emptied, oldest first.                 *)
C25_BufferBoundedRing ==
    loggerConfig.enableBuffer =>
       LET n == Len(recorded)
           kept == Min(n, loggerConfig.bufferSize)
       IN  /\ Len(buffer) <= loggerConfig.bufferSize
           /\ buffer = SubSeq(recorded, n - kept + 1, n)

(* an entry has been evicted from a buffer of two or more entries *)
C25_Witness ==
    /\ loggerConfig.enableBuffer
    /\ loggerConfig.bufferSize >= 2
    /\ Len(recorded) > loggerConfig.bufferSize
    /\ Len(buffer) = loggerConfig.bufferSize

(* the entries the logger has recorded: buffered, written to the console or passed *)
(* to the custom logger                                                            *)
RecordedEntries ==
    Range(buffer) \cup Range(recorded) \cup Range(sinkCalls)
       \cup { consoleOut[i].entry : i \in 1..Len(consoleOut) }

(* C26: message truncation.  Every entry recorded through debug, info, warn,      *)
(* error, logRequest, logResponse or logError has a message of at most maxLogSize  *)
(* characters.                                                                     *)
C26_MessagesTruncated ==
    \A entry \in RecordedEntries : Len(entry.message) <= loggerConfig.maxLogSize

(* a flush that has returned with nothing logged since it was called *)
FlushedQuietly(f) == flushOp[f].pc = "returned" /\ ~flushOp[f].logged

(* the entries the flush took were passed to the custom logger once each, in the  *)
(* order of the buffer                                                             *)
PassedOnceInOrder(f) ==
    SelectSeq(sinkCalls, LAMBDA entry : entry \in Range(flushOp[f].taken)) = flushOp[f].taken

(* every entry the custom logger failed on was reported on the console *)
FailuresReported(f) ==
    \A entry \in Range(flushOp[f].failed) :
       \E i \in 1..Len(consoleOut) :
          consoleOut[i] = ConsoleLine("error", "Custom logger failed", entry)

(* C24 as stated: after flush() has returned with no logging in between, the       *)
(* buffer is empty, every entry that was buffered has been passed to the custom    *)
(* sink once, in buffer order, also when the sink failed for some of them, the     *)
(* failures are on the console and the flush did not reject.                       *)
C24_FlushDrains ==
    \A f \in Flushers :
       FlushedQuietly(f) =>
          /\ buffer = <<>>
          /\ PassedOnceInOrder(f)
          /\ FailuresReported(f)
          /\ flushOp[f].outcome = "resolved"

(* C24, amended: with a custom logger configured, after flush() has returned with *)
(* no logging in between, the buffer is empty, every entry that was buffered has   *)
(* been passed to the custom logger once, in buffer order, also when the logger    *)
(* failed for some of them, the failures are on the console and the flush did not  *)
(* reject; without a custom logger flush() resolves and leaves the buffer as it    *)
(* was.                                                                            *)
C24_FlushDrainsWithSink ==
    \A f \in Flushers :
       FlushedQuietly(f) =>
          /\ flushOp[f].outcome = "resolved"
          /\ IF customLogger
             THEN /\ buffer = <<>>
                  /\ PassedOnceInOrder(f)
                  /\ FailuresReported(f)
             ELSE /\ buffer = flushOp[f].taken
                  /\ sinkCalls = <<>>

(* a flush of two entries has returned; the custom logger failed on the first *)
C24_Witness ==
    /\ customLogger
    /\ FlushedQuietly("f1")
    /\ Len(flushOp["f1"].taken) = 2
    /\ flushOp["f1"].failed = <<flushOp["f1"].taken[1]>>

(* the names the claim calls sensitive: the default ones and the configured ones, *)
(* compared without regard to case                                                 *)
NameIsSensitive(key) ==
    \E name \in DEFAULT_SENSITIVE_FIELDS \cup loggerConfig.sensitiveFields :
       includes(toLowerCase(key), toLowerCase(name))

Stars(n) == [i \in 1..n |-> "*"]

(* the mask the claim gives for a value *)
ClaimedMask(value) == Str(Stars(IF value.t = "string" THEN Min(Len(value.s), 20) ELSE 8))

(* given and kept have the same shape and every field of given with a sensitive   *)
(* name, at any depth and inside arrays, is in kept as its mask (hidden: and the   *)
(* mask differs from the value)                                                    *)
RECURSIVE MaskedAsClaimed(_, _, _)
MaskedAsClaimed(given, kept, hidden) ==
    IF given.t \in {"object", "array"}
    THEN /\ kept.t = given.t
         /\ Len(kept.f) = Len(given.f)
         /\ \A i \in 1..Len(given.f) :
               /\ kept.f[i].k = given.f[i].k
               /\ IF given.t = "object" /\ NameIsSensitive(given.f[i].k)
                  THEN /\ kept.f[i].v = ClaimedMask(given.f[i].v)
                       /\ hidden => kept.f[i].v # given.f[i].v
                  ELSE MaskedAsClaimed(given.f[i].v, kept.f[i].v, hidden)
    ELSE TRUE

(* a and b differ at most in the values of fields with sensitive names, and there *)
(* in strings of equal length                                                      *)
RECURSIVE DifferInSensitiveOnly(_, _)
DifferInSensitiveOnly(a, b) ==
    IF a.t \in {"object", "array"}
    THEN /\ b.t = a.t
         /\ Len(b.f) = Len(a.f)
         /\ \A i \in 1..Len(a.f) :
               /\ b.f[i].k = a.f[i].k
               /\ IF a.t = "object" /\ NameIsSensitive(a.f[i].k)
                  THEN \/ a.f[i].v = b.f[i].v
                       \/ /\ a.f[i].v.t = "string"
                          /\ b.f[i].v.t = "string"
                          /\ Len(a.f[i].v.s) = Len(b.f[i].v.s)
                  ELSE DifferInSensitiveOnly(a.f[i].v, b.f[i].v)
    ELSE a = b

MaskingHolds(hidden) ==
    loggerConfig.maskSensitiveData =>
       /\ \A call \in maskLog :
             /\ MaskedAsClaimed(call.meta, call.metadata, hidden)
             /\ call.after = call.meta
       /\ \A c1 \in maskLog, c2 \in maskLog :
             DifferInSensitiveOnly(c1.meta, c2.meta) => c1.metadata = c2.metadata

LiveView ==
    [environment |-> auditConfig.environment, version |-> auditConfig.version,
     lastUpdated |-> auditConfig.lastUpdated, values |-> ValuesOf(auditConfig)]

(* C29: an updateConfig call on a field that hotReloadConfig.reloadableFields does  *)
(* not list leaves the live value, the version and the change history unchanged.    *)
C29_OnlyReloadableFieldsChange ==
    [][ ( /\ configResult'.op = "updateConfig"
          /\ configClock' # configClock
          /\ configResult'.path \notin hotReloadConfig.reloadableFields )
        => ( /\ configObjects'[auditConfig'[SectionOf(configResult'.path)]].value
                  = getNestedValue(auditConfig, configResult'.path)
             /\ auditConfig'.version = auditConfig.version
             /\ changeHistory' = changeHistory ) ]_vars

(* C30: an assignment a caller makes to the object getConfig() returned, at top     *)
(* level or inside a section, never changes the live configuration that getConfig,  *)
(* getConfigValue and validateCurrentConfig read.                                   *)
C30_SnapshotIsolation ==
    [][ (configResult'.op = "assign" /\ configClock' # configClock)
        => LiveView' = LiveView ]_vars

(* C31: request makes at most retries + 1 attempts; it returns the data of the      *)
(* first attempt that succeeds (every attempt before it failed, none follows it),   *)
(* and when every attempt failed it rejects with the error of the last attempt,     *)
(* after retries + 1 attempts and without a wait after the last one.                *)
C31_RequestTerminates ==
    /\ httpCall.fetched <= clientOptions.retries + 1
    /\ Len(httpCall.waits) <= httpCall.fetched
    /\ httpCall.pc \in {"fetch", "returned"} => Len(httpCall.errors) = httpCall.fetched - 1
    /\ httpCall.pc = "returned" =>
          /\ httpCall.data \in ResponseData
          /\ Len(httpCall.waits) = httpCall.fetched - 1
    /\ (httpCall.pc = "rejected" /\ httpCall.fetched > 0) =>
          /\ httpCall.fetched = clientOptions.retries + 1
          /\ Len(httpCall.errors) = httpCall.fetched
          /\ httpCall.thrown = httpCall.errors[Len(httpCall.errors)]
          /\ Len(httpCall.waits) = httpCall.fetched - 1

C31_Witness ==
    /\ httpCall.pc = "rejected"
    /\ clientOptions.retries = 2
    /\ httpCall.fetched = 3
    /\ httpCall.errors[1] # httpCall.errors[3]

(* C37: the wait before retry k is min(backoffMs * 2^(k-1), maxBackoffMs), so no    *)
(* wait exceeds maxBackoffMs.                                                       *)
C37_CappedBackoff ==
    \A k \in DOMAIN httpCall.waits :
       /\ httpCall.waits[k] = Min(clientOptions.backoffMs * Pow(2, k - 1),
                                  clientOptions.maxBackoffMs)
       /\ httpCall.waits[k] <= clientOptions.maxBackoffMs

(* the breaker of key rejects at the current time: open, and now < nextRetryTime *)
Rejecting(key) ==
    /\ circuitBreakers[key].state = OPEN
    /\ now < circuitBreakers[key].nextRetryTime

(* C33: while the breaker of a key is open and now < nextRetryTime, no invocation   *)
(* of an operation for that key begins, the retry attempts of a call in flight      *)
(* included.                                                                        *)
C33_NoInvocationWhileOpen ==
    [][ \A c \in Calls :
          (/\ calls'[c].invocations > calls[c].invocations
           /\ config.enabled /\ circuitBreakerConfig.enabled)
          => ~Rejecting(calls'[c].key) ]_vars

(* C34: the breaker of a key leaves the open state only for half-open, by a call    *)
(* that arrives when now >= nextRetryTime, or by a reset of the breaker; it never   *)
(* goes from open to closed.                                                        *)
C34_OpenLeavesToHalfOpen ==
    [][ \A key \in Keys :
          (circuitBreakers[key].state = OPEN /\ circuitBreakers'[key].state # OPEN)
          => \/ /\ circuitBreakers'[key].state = HALF_OPEN
                /\ now >= circuitBreakers[key].nextRetryTime
             \/ circuitBreakers'[key] = NoStats ]_vars

(* C35: execute fails with RetryExhaustedError only after maxAttempts invocations   *)
(* of the operation.                                                                *)
C35_ExhaustedAfterMaxAttempts ==
    \A c \in Calls :
       (calls[c].pc = "done" /\ calls[c].result.kind = "RetryExhaustedError")
       => calls[c].invocations = config.maxAttempts

(* C36: with one execute call at a time, the breaker of the key is closed right     *)
(* after a call returns a successful result.                                        *)
C36_SuccessLeavesClosed ==
    [][ \A c \in Calls :
          (/\ calls[c].pc = "running"
           /\ calls'[c].pc = "done"
           /\ calls'[c].result.kind = "success"
           /\ circuitBreakerConfig.enabled)
          => circuitBreakers'[calls[c].key].state = CLOSED ]_vars

(* C40: in each RetryResult of executeAll, attempts is the number of invocations    *)
(* that execute made of the operation, and circuitBreakerTripped is true exactly    *)
(* when the call was rejected with CircuitBreakerOpenError.                         *)
C40_RetryResultAttempts ==
    batch.pc = "returned" =>
       \A c \in Calls :
          /\ batch.results[c].attempts = batch.results[c].invocations
          /\ batch.results[c].circuitBreakerTripped
                <=> batch.results[c].kind = "CircuitBreakerOpenError"

(* C38: the date ranges the GDPR service reports are well-formed: start <= end in   *)
(* summary.dateRange of every applyRetentionPolicy result and in                    *)
(* metadata.dateRange of every exportUserData result, also when no event matches.   *)
C38_DateRangesWellFormed ==
    /\ gdprResult.op = "applyRetentionPolicies" =>
          \A i \in DOMAIN gdprResult.results :
             gdprResult.results[i].summary.dateRange.start
                <= gdprResult.results[i].summary.dateRange.end
    /\ \A pr \in Procs :
          (gdprOps[pr].op = "exportUserData" /\ gdprOps[pr].pc = "done") =>
             gdprOps[pr].exported.metadata.dateRange.start
                <= gdprOps[pr].exported.metadata.dateRange.end

(* the entries a flush in flight has taken from the buffer and not yet passed on   *)
Pending(f) == IF flushOp[f].pc = "awaiting" THEN flushOp[f].entries ELSE <<>>

Occurrences(seq, e) == Cardinality({ i \in DOMAIN seq : seq[i] = e })

(* C39: with overlapping flushes and entries logged while a flush awaits the sink, *)
(* every recorded entry that the size limit did not evict is in exactly one place: *)
(* still in the buffer, passed to the sink once, or taken by a flush in flight     *)
(* that has not reached it yet; when no flush is in flight it is in the buffer or  *)
(* was passed to the sink exactly once; the sink is passed nothing else            *)
C39_NoLossNoDuplicate ==
    /\ \A e \in retained :
          Occurrences(buffer, e) + Occurrences(sinkCalls, e)
             + Occurrences(Pending("f1"), e) + Occurrences(Pending("f2"), e) = 1
    /\ Range(sinkCalls) \subseteq retained
    /\ (\A f \in Flushers : flushOp[f].pc # "awaiting") =>
          \A e \in retained : Occurrences(buffer, e) + Occurrences(sinkCalls, e) = 1

(* two flushes await the sink at once, an entry was logged while the first one     *)
(* awaited, and the size limit has evicted an entry                                 *)
C39_Witness ==
    /\ flushOp["f1"].pc = "awaiting"
    /\ flushOp["f2"].pc = "awaiting"
    /\ flushOp["f1"].logged
    /\ Cardinality(retained) < logClock - 1
    /\ Len(sinkCalls) = 2

(* Properties of the queue adapter *)

Enqueued == 1..queue.enqueued

Places(q, j) ==
    Occurrences(q.waiting, j) + Cardinality({ a \in q.active : a.id = j })
       + (IF j \in q.completed THEN 1 ELSE 0)
       + Cardinality({ i \in DOMAIN q.deadLetter : q.deadLetter[i].id = j })

ReasonOf(q, j) == (CHOOSE d \in Range(q.deadLetter) : d.id = j).reason

(* an enqueued job is in exactly one place: waiting, claimed, done or dead-lettered *)
NeverLost == \A j \in Enqueued : Places(queue, j) = 1

(* a job with maxRetries nacks is in the dead-letter stream *)
NackedOut == \A j \in Enqueued : queue.nacks[j] >= queueConfig.maxRetries => j \in DeadIds(queue)

(* a job enters the dead-letter stream in the step in which a consumer that holds   *)
(* it reports its failure, with the error that consumer reports                     *)
DeadWithLastError ==
    \A j \in Enqueued :
       (j \notin DeadIds(queue) /\ j \in DeadIds(queue')) =>
          \E c \in Consumers :
             /\ workers[c].job = j
             /\ workers[c].stage = "failed"
             /\ workers'[c] = IdleWorker
             /\ ReasonOf(queue', j) = workers[c].error
             /\ workers[c].error = "Transient" => queue'.nacks[j] = queueConfig.maxRetries

(* a dead-lettered job stays dead-lettered with its error and is not delivered *)
DeadIsFinal ==
    \A j \in Enqueued :
       j \in DeadIds(queue) =>
          /\ j \in DeadIds(queue')
          /\ ReasonOf(queue', j) = ReasonOf(queue, j)
          /\ queue'.deliveries[j] = queue.deliveries[j]
          /\ \A c \in Consumers : workers'[c].job = j => workers[c].job = j

(* the claim on job j has run out / job j is under a claim that has not run out *)
Overdue(j) == \E a \in queue.active : a.id = j /\ a.deadline <= queue.clock

Claimed(j) == \E a \in queue.active : a.id = j /\ a.deadline > queue.clock

(* C32: delivery is at-least-once with dead-lettering.  An enqueued job is never    *)
(* lost; a claimed job that was not ack'd within visibilityTimeout is delivered     *)
(* again (unless it was settled meanwhile); a job nack'd maxRetries times is in the *)
(* dead-letter stream with its last error and is delivered to no consumer           *)
(* afterwards; every enqueued job eventually ends ack'd or dead-lettered.           *)
C32_AtLeastOnceWithDeadLetter ==
    /\ [](NeverLost /\ NackedOut)
    /\ [][DeadWithLastError /\ DeadIsFinal]_vars
    /\ \A j \in JobIds : Overdue(j) ~> (Claimed(j) \/ Terminal(queue, j))
    /\ \A j \in JobIds : (j \in Enqueued) ~> Terminal(queue, j)

(* a job was delivered, its claim ran out and it was delivered again while the      *)
(* first consumer still held it; it was nack'd maxRetries times and is in the       *)
(* dead-letter stream, and another job was ack'd                                    *)
C32_Witness ==
    \E j \in Enqueued, k \in Enqueued :
       /\ queueConfig.maxRetries = 2
       /\ queue.nacks[j] = 2
       /\ j \in DeadIds(queue)
       /\ queue.deliveries[j] >= 3
       /\ k \in queue.completed

(* C3: every row of the store carries the hash of the canonical form of its current *)
(* fields other than hash and archivedAt.                                           *)
C3_StoredHashVerifies == \A row \in store : verify(row)

====
